---- MODULE Spec2Model ----
(***************************************************************************)
(* Model of the CloudTech authentication service: the account-lockout      *)
(* state machine of AuthService (login / register / verifyUser) over the   *)
(* User model, and the fixed-window rate limiter in front of it.           *)
(*                                                                         *)
(* Time is a discrete clock `now` (the value of Date.now()); one tick is   *)
(* the unit in which the configured durations are expressed.               *)
(***************************************************************************)
EXTENDS Integers, Sequences, FiniteSets, TLC

(***************************************************************************)
(* Bounds of the model                                                     *)
(***************************************************************************)
\* last instant of the clock
MaxTime == 3
\* number of clock ticks that stand for the 900000 ms of the configuration
WindowTicks == 2
\* largest window and largest limit of a limiter made by createRateLimiter
MaxWindow == 2
MaxLimit == 3
\* most calls counted in one window of one rate-limit key
MaxCount == 6
\* requests counted in one record of the auth limiter in AuthKeySpec
MaxPerKey == 2
\* the passwords given to the validators are at most this much shorter or
\* longer than the least length validatePassword accepts
PwSlack == 1
\* last instant of the clock in TokenSpec
MaxTokenTime == 7
\* most requests of one address counted in one window of the api limiter
MaxApiCount == 101
\* clock ticks in one second of the X-RateLimit-Reset header
TicksPerSecond == 2

(***************************************************************************)
(* Configuration (env.config)                                              *)
(***************************************************************************)
MaxLoginAttempts == 5
LockoutDuration == WindowTicks
AuthWindowMs == WindowTicks
AuthMaxRequests == 5
ApiWindowMs == WindowTicks
ApiMaxRequests == 100
\* config.jwt.expiresIn ('24h'), in seconds
JwtExpiresIn == 1
JwtIssuer == "cloudtech-auth"

\* null / undefined of a Date field
Null == -1

Procs == {"p1", "p2"}

(***************************************************************************)
(* Strings are sequences of characters.  The empty sequence also stands    *)
(* for a missing (undefined) input: both are falsy in every test the code  *)
(* makes on them.                                                          *)
(***************************************************************************)
NUL == "\\0"
Whitespace == {" "}
UpperChars == {"A"}
LowerChars == {"a", "b", "i", "l", "o", "x"}
DigitChars == {"1"}
SpecialChars == {"!", "@", "."}

Alice == <<"a", "l", "i">>
Bob == <<"b", "o", "b">>
PaddedAlice == <<" ">> \o Alice \o <<NUL>>
ShortName == <<"a", "l">>
LongName == [i \in 1..51 |-> "a"]
BadCharName == <<"a", "!", "i">>
Carl == <<"o", "l", "a">>

GoodPw == <<"A", "a", "1", "!", "x", "x", "x", "x">>
OtherPw == <<"A", "b", "1", "!", "x", "x", "x", "x">>
WeakPw == <<"a", "b", "x", "x", "x", "x", "x", "x">>
NoString == <<>>
\* the placeholder of the auth limiter's key
Unknown == <<"u", "n", "k", "n", "o", "w", "n">>

EmailA == <<"a", "@", "x", ".", "o">>
EmailB == <<"b", "@", "x", ".", "o">>
BadEmail == <<"a", "@", "x">>

\* the usernames an identity can have in the store
Names == {Alice, Bob}

(***************************************************************************)
(* validators.js                                                           *)
(***************************************************************************)
RECURSIVE StripNul(_)
StripNul(s) ==
    IF s = <<>> THEN <<>>
    ELSE IF Head(s) = NUL THEN StripNul(Tail(s))
    ELSE <<Head(s)>> \o StripNul(Tail(s))

RECURSIVE TrimLeft(_)
TrimLeft(s) ==
    IF s = <<>> THEN <<>>
    ELSE IF Head(s) \in Whitespace THEN TrimLeft(Tail(s))
    ELSE s

RECURSIVE TrimRight(_)
TrimRight(s) ==
    IF s = <<>> THEN <<>>
    ELSE IF s[Len(s)] \in Whitespace THEN TrimRight(SubSeq(s, 1, Len(s) - 1))
    ELSE s

Trim(s) == TrimRight(TrimLeft(s))

sanitizeString(str) == Trim(StripNul(str))

Has(s, C) == \E i \in 1..Len(s) : s[i] \in C

UsernameCharsOnly(s) ==
    \A i \in 1..Len(s) : s[i] \in UpperChars \cup LowerChars \cup DigitChars \cup {"_", "-"}

\* validateUsername without the rule of at most 50 characters
validateUsername_NoUpperBound(username) ==
    IF username = <<>> THEN <<"Username is required">>
    ELSE IF Len(username) < 3 THEN <<"Username must be at least 3 characters long">>
    ELSE IF ~UsernameCharsOnly(username)
         THEN <<"Username can only contain letters, numbers, hyphens, and underscores">>
    ELSE <<>>

validateUsername(username) ==
    IF username = <<>> THEN <<"Username is required">>
    ELSE IF Len(username) < 3 THEN <<"Username must be at least 3 characters long">>
    ELSE IF Len(username) > 50 THEN <<"Username must not exceed 50 characters">>
    ELSE IF ~UsernameCharsOnly(username)
         THEN <<"Username can only contain letters, numbers, hyphens, and underscores">>
    ELSE <<>>

\* validatePassword reporting only the first character class that is missing
validatePassword_FirstClassOnly(password) ==
    IF password = <<>> THEN <<"Password is required">>
    ELSE IF Len(password) < 8 THEN <<"Password must be at least 8 characters long">>
    ELSE IF Len(password) > 128 THEN <<"Password must not exceed 128 characters">>
    ELSE IF ~Has(password, UpperChars)
         THEN <<"Password must contain at least one uppercase letter">>
    ELSE IF ~Has(password, LowerChars)
         THEN <<"Password must contain at least one lowercase letter">>
    ELSE IF ~Has(password, DigitChars)
         THEN <<"Password must contain at least one number">>
    ELSE IF ~Has(password, SpecialChars)
         THEN <<"Password must contain at least one special character">>
    ELSE <<>>

validatePassword(password) ==
    IF password = <<>> THEN <<"Password is required">>
    ELSE IF Len(password) < 8 THEN <<"Password must be at least 8 characters long">>
    ELSE IF Len(password) > 128 THEN <<"Password must not exceed 128 characters">>
    ELSE (IF Has(password, UpperChars) THEN <<>>
          ELSE <<"Password must contain at least one uppercase letter">>)
      \o (IF Has(password, LowerChars) THEN <<>>
          ELSE <<"Password must contain at least one lowercase letter">>)
      \o (IF Has(password, DigitChars) THEN <<>>
          ELSE <<"Password must contain at least one number">>)
      \o (IF Has(password, SpecialChars) THEN <<>>
          ELSE <<"Password must contain at least one special character">>)

\* /^[^\s@]+@[^\s@]+\.[^\s@]+$/
EmailRegex(email) ==
    /\ \A i \in 1..Len(email) : email[i] \notin Whitespace
    /\ Cardinality({i \in 1..Len(email) : email[i] = "@"}) = 1
    /\ \E i \in 2..Len(email) :
          /\ email[i] = "@"
          /\ \E j \in (i + 2)..(Len(email) - 1) : email[j] = "."

validateEmail(email) ==
    IF email = <<>> THEN <<"Email is required">>
    ELSE IF ~EmailRegex(email) THEN <<"Invalid email format">>
    ELSE IF Len(email) > 255 THEN <<"Email must not exceed 255 characters">>
    ELSE <<>>

validateLoginCredentials(username, password) ==
    LET sanitizedUsername == sanitizeString(username)
        sanitizedPassword == sanitizeString(password)
        errors == validateUsername(sanitizedUsername)
                  \o (IF sanitizedPassword = <<>> THEN <<"Password is required">> ELSE <<>>)
    IN [errors |-> errors, username |-> sanitizedUsername,
        password |-> sanitizedPassword, email |-> <<>>]

validateRegistrationData(username, password, email) ==
    LET sanitizedUsername == sanitizeString(username)
        sanitizedPassword == sanitizeString(password)
        sanitizedEmail == IF email # <<>> THEN sanitizeString(email) ELSE <<>>
        errors == validateUsername(sanitizedUsername)
                  \o validatePassword(sanitizedPassword)
                  \o (IF sanitizedEmail # <<>> THEN validateEmail(sanitizedEmail) ELSE <<>>)
    IN [errors |-> errors, username |-> sanitizedUsername,
        password |-> sanitizedPassword, email |-> sanitizedEmail]

(***************************************************************************)
(* State                                                                   *)
(***************************************************************************)
VARIABLES
    now,      \* Date.now()
    users,    \* the users collection, by username (unique index)
    store,    \* RateLimitStore.store: key -> {count, resetTime}
    custom,   \* the options of a limiter made by createRateLimiter
    out,      \* what the last limiter call did: headers and next()
    pc,       \* position of each in-flight service call
    arg,      \* its sanitized arguments
    snap,     \* the document its query returned
    upd,      \* the update it has sent to the collection
    ret,      \* the outcome of the last call each caller completed
    issued,   \* the token issued last
    mon,      \* observer: instants of the in-flight request
    trail,    \* observer: per account, the login attempts since the last success
    httpLog,  \* observer: the answers to the first login requests on alice
    hits,     \* observer: per key, first call and number of calls of the window
    thrown,   \* observer: what a store or library call threw inside each call
    given     \* observer: the arguments of each call as the caller gave them

corevars == <<now, users, store, custom, out, pc, arg, snap, upd, ret, issued>>
obsvars == <<mon, trail, httpLog, hits, thrown, given>>
vars == <<now, users, store, custom, out, pc, arg, snap, upd, ret, issued,
          mon, trail, httpLog, hits, thrown, given>>

NoUser ==
    [exists |-> FALSE, id |-> <<>>, email |-> <<>>, password |-> <<>>,
     failedLoginAttempts |-> 0, lockUntil |-> Null, lastLogin |-> Null,
     isActive |-> FALSE]

\* bcrypt.hash, an injective one-way function of the plaintext
Hash(password) == <<"$2a$">> \o password

\* new User({username, password, email}) after the pre-save hook
NewUser(username, password, email) ==
    [exists |-> TRUE, id |-> <<"id">> \o username, email |-> email,
     password |-> Hash(password), failedLoginAttempts |-> 0, lockUntil |-> Null,
     lastLogin |-> Null, isActive |-> TRUE]

\* a token: jwt says whether the string has the form of a JWT, sig whether it
\* is signed with config.jwt.secret; exp is in seconds
NoToken == [jwt |-> FALSE, sig |-> FALSE, iss |-> "", sub |-> <<>>, username |-> <<>>,
            iat |-> 0, exp |-> 0]
NoView == [id |-> <<>>, username |-> <<>>, email |-> <<>>, lastLogin |-> Null]
NoArg == [op |-> "none", username |-> <<>>, password |-> <<>>, email |-> <<>>,
          token |-> NoToken]
NoUpd == [kind |-> "none", lockUntil |-> Null, t |-> Null]
NoRet == [type |-> "none", status |-> 0, msg |-> "", errors |-> <<>>, mins |-> 0,
          token |-> NoToken, user |-> NoView]
NoMon == [arr |-> 0, chk |-> 0, pwOk |-> FALSE]

\* errors.js
ValidationError(message, errors) ==
    [NoRet EXCEPT !.type = "ValidationError", !.status = 400, !.msg = message,
                  !.errors = errors]
AuthenticationError(message) ==
    [NoRet EXCEPT !.type = "AuthenticationError", !.status = 401, !.msg = message]
RateLimitError(message) ==
    [NoRet EXCEPT !.type = "RateLimitError", !.status = 429, !.msg = message]
PlainError(message) ==
    [NoRet EXCEPT !.type = "Error", !.status = 500, !.msg = message]
Success(token, view) ==
    [NoRet EXCEPT !.type = "ok", !.status = 200, !.token = token, !.user = view]

\* what the store (mongoose, the MongoDB driver), bcrypt or jsonwebtoken can
\* throw: none is an instance of a class of errors.js (instanceOf = ""),
\* though mongoose has a class of its own that is named ValidationError
NoThrow == [name |-> "", instanceOf |-> "", message |-> "", code |-> 0,
            errors |-> <<>>, hasKeyPattern |-> FALSE, keyPattern |-> <<>>]
NetworkError ==
    [NoThrow EXCEPT !.name = "MongoNetworkError", !.message = "connection lost"]
SchemaError ==
    [NoThrow EXCEPT !.name = "ValidationError", !.message = "User validation failed",
                    !.errors = <<"Invalid email format">>]
DuplicateKey ==
    [NoThrow EXCEPT !.name = "MongoServerError", !.message = "E11000 duplicate key",
                    !.code = 11000, !.hasKeyPattern = TRUE,
                    !.keyPattern = <<"username">>]
\* the duplicate key error of a server that reports no keyPattern
DuplicateKeyBare ==
    [NoThrow EXCEPT !.name = "MongoServerError", !.message = "E11000 duplicate key",
                    !.code = 11000]
JwtError == [NoThrow EXCEPT !.name = "Error", !.message = "JWT error"]

StoreErrors == {NetworkError, SchemaError, DuplicateKey, DuplicateKeyBare}

\* an error that leaves a call as it was thrown
Raw(e) == [NoRet EXCEPT !.type = e.name, !.status = 500, !.msg = e.message]
\* Object.keys(undefined)
TypeError ==
    [NoRet EXCEPT !.type = "TypeError", !.status = 500,
                  !.msg = "Cannot convert undefined or null to object"]

\* the catch of login telling its own errors by their name
LoginCatch_ByName(e) ==
    IF e.name \in {"ValidationError", "AuthenticationError"}
    THEN Raw(e)
    ELSE AuthenticationError("Authentication failed")

\* the catch of login
LoginCatch(e) ==
    IF e.instanceOf \in {"ValidationError", "AuthenticationError"}
    THEN Raw(e)
    ELSE AuthenticationError("Authentication failed")

\* the catch of register
RegisterCatch(e) ==
    IF e.instanceOf = "ValidationError" THEN Raw(e)
    ELSE IF e.name = "ValidationError"
    THEN ValidationError("Validation failed", e.errors)
    ELSE IF e.code = 11000
    THEN IF e.hasKeyPattern
         THEN ValidationError(Head(e.keyPattern) \o " already exists", <<>>)
         ELSE TypeError
    ELSE ValidationError("Registration failed", <<>>)

\* the catch of verifyUser
VerifyCatch(e) ==
    IF e.instanceOf = "AuthenticationError" THEN Raw(e)
    ELSE AuthenticationError("Invalid token")

\* isLocked with the lock still in force at the instant lockUntil itself
isLocked_Inclusive(user, t) == user.lockUntil # Null /\ user.lockUntil >= t

\* isLocked with the comparison turned round
isLocked_Flipped(user, t) == user.lockUntil # Null /\ user.lockUntil < t

\* userSchema.virtual('isLocked')
isLocked(user, t) == user.lockUntil # Null /\ user.lockUntil > t

\* userSchema.methods.comparePassword
comparePassword(user, candidatePassword) == Hash(candidatePassword) = user.password

\* incrementLoginAttempts locking one failure late
incrementLoginAttempts_Late(user, t) ==
    IF user.lockUntil # Null /\ user.lockUntil < t
    THEN [kind |-> "restart", lockUntil |-> Null, t |-> t]
    ELSE IF user.failedLoginAttempts + 1 > MaxLoginAttempts
    THEN [kind |-> "inclock", lockUntil |-> t + LockoutDuration, t |-> t]
    ELSE [kind |-> "inc", lockUntil |-> Null, t |-> t]

\* incrementLoginAttempts without the restart after an expired lock
incrementLoginAttempts_NoRestart(user, t) ==
    IF user.failedLoginAttempts + 1 >= MaxLoginAttempts
    THEN [kind |-> "inclock", lockUntil |-> t + LockoutDuration, t |-> t]
    ELSE [kind |-> "inc", lockUntil |-> Null, t |-> t]

\* the update document incrementLoginAttempts sends, built from the loaded
\* document `user` at instant t
incrementLoginAttempts(user, t) ==
    IF user.lockUntil # Null /\ user.lockUntil < t
    THEN [kind |-> "restart", lockUntil |-> Null, t |-> t]
    ELSE IF user.failedLoginAttempts + 1 >= MaxLoginAttempts
    THEN [kind |-> "inclock", lockUntil |-> t + LockoutDuration, t |-> t]
    ELSE [kind |-> "inc", lockUntil |-> Null, t |-> t]

\* the update document resetLoginAttempts sends
resetLoginAttempts(user, t) == [kind |-> "reset", lockUntil |-> Null, t |-> t]

\* updateOne with the restart after an expired lock writing 0
updateOne_RestartZero(doc, u) ==
    CASE u.kind = "restart" ->
            [doc EXCEPT !.failedLoginAttempts = 0, !.lockUntil = Null]
      [] u.kind = "inc" ->
            [doc EXCEPT !.failedLoginAttempts = @ + 1]
      [] u.kind = "inclock" ->
            [doc EXCEPT !.failedLoginAttempts = @ + 1, !.lockUntil = u.lockUntil]
      [] u.kind = "reset" ->
            [doc EXCEPT !.failedLoginAttempts = 0, !.lastLogin = u.t,
                        !.lockUntil = Null]
      [] OTHER -> doc

\* updateOne: the collection applies the update to the stored document
updateOne(doc, u) ==
    CASE u.kind = "restart" ->
            [doc EXCEPT !.failedLoginAttempts = 1, !.lockUntil = Null]
      [] u.kind = "inc" ->
            [doc EXCEPT !.failedLoginAttempts = @ + 1]
      [] u.kind = "inclock" ->
            [doc EXCEPT !.failedLoginAttempts = @ + 1, !.lockUntil = u.lockUntil]
      [] u.kind = "reset" ->
            [doc EXCEPT !.failedLoginAttempts = 0, !.lastLogin = u.t,
                        !.lockUntil = Null]
      [] OTHER -> doc

\* User.findByUsername
findByUsername(username) ==
    IF username \in Names THEN users[username] ELSE NoUser

\* AuthService.generateToken
\* jwt.sign takes the iat of the payload as the instant of issue, in seconds,
\* and sets exp to it plus expiresIn; the payload has iat: Date.now()
generateToken(username, user, t) ==
    [jwt |-> TRUE, sig |-> TRUE, iss |-> JwtIssuer, sub |-> user.id,
     username |-> username, iat |-> t, exp |-> t + JwtExpiresIn]

\* the reason for which jwt.verify throws at instant t, "" when it returns
\* the payload: it compares exp with Math.floor(Date.now() / 1000)
jwtVerify(token, t) ==
    IF ~token.jwt THEN "jwt malformed"
    ELSE IF ~token.sig THEN "invalid signature"
    ELSE IF t \div TicksPerSecond >= token.exp THEN "jwt expired"
    ELSE IF token.iss # JwtIssuer THEN "jwt issuer invalid"
    ELSE ""

\* AuthService.verifyToken: TRUE when jwt.verify returns the payload
verifyToken(token, t) == jwtVerify(token, t) = ""

\* User.findById
findById(id) ==
    IF \E n \in Names : users[n].exists /\ users[n].id = id
    THEN users[CHOOSE n \in Names : users[n].exists /\ users[n].id = id]
    ELSE NoUser

UsernameOfId(id) ==
    IF \E n \in Names : users[n].exists /\ users[n].id = id
    THEN CHOOSE n \in Names : users[n].exists /\ users[n].id = id
    ELSE <<>>

(***************************************************************************)
(* rateLimiter.js: RateLimitStore                                          *)
(***************************************************************************)
EmptyStore == [k \in {} |-> [count |-> 0, resetTime |-> 0]]

MapSet(st, key, record) ==
    [k \in DOMAIN st \cup {key} |-> IF k = key THEN record ELSE st[k]]
MapDelete(st, key) == [k \in DOMAIN st \ {key} |-> st[k]]

\* RateLimitStore.get closing the window at the instant resetTime itself
StoreGet_Inclusive(st, key, t) ==
    IF key \notin DOMAIN st
    THEN [record |-> [count |-> 0, resetTime |-> t], store |-> st]
    ELSE IF t >= st[key].resetTime
    THEN [record |-> [count |-> 0, resetTime |-> t], store |-> MapDelete(st, key)]
    ELSE [record |-> st[key], store |-> st]

\* RateLimitStore.get: the record it returns and the map it leaves
StoreGet(st, key, t) ==
    IF key \notin DOMAIN st
    THEN [record |-> [count |-> 0, resetTime |-> t], store |-> st]
    ELSE IF t > st[key].resetTime
    THEN [record |-> [count |-> 0, resetTime |-> t], store |-> MapDelete(st, key)]
    ELSE [record |-> st[key], store |-> st]

\* RateLimitStore.increment opening a window of no length
StoreIncrement_NoWindow(st, key, windowMs, t) ==
    LET g == StoreGet(st, key, t)
        resetTime == g.record.resetTime
    IN [count |-> g.record.count + 1, resetTime |-> resetTime,
        store |-> MapSet(g.store, key, [count |-> g.record.count + 1,
                                        resetTime |-> resetTime])]

\* RateLimitStore.increment writing 1 whatever the record holds
StoreIncrement_Overwrite(st, key, windowMs, t) ==
    LET g == StoreGet(st, key, t)
        resetTime == IF g.record.count = 0 THEN t + windowMs ELSE g.record.resetTime
    IN [count |-> 1, resetTime |-> resetTime,
        store |-> MapSet(g.store, key, [count |-> 1, resetTime |-> resetTime])]

\* RateLimitStore.increment moving the end of the window at every call
StoreIncrement_Sliding(st, key, windowMs, t) ==
    LET g == StoreGet(st, key, t)
        resetTime == t + windowMs
    IN [count |-> g.record.count + 1, resetTime |-> resetTime,
        store |-> MapSet(g.store, key, [count |-> g.record.count + 1,
                                        resetTime |-> resetTime])]

\* RateLimitStore.increment
StoreIncrement(st, key, windowMs, t) ==
    LET g == StoreGet(st, key, t)
        resetTime == IF g.record.count = 0 THEN t + windowMs ELSE g.record.resetTime
    IN [count |-> g.record.count + 1, resetTime |-> resetTime,
        store |-> MapSet(g.store, key, [count |-> g.record.count + 1,
                                        resetTime |-> resetTime])]

\* RateLimitStore.cleanup purging a record at the instant resetTime itself
StoreCleanup_Eager(st, t) == [k \in {j \in DOMAIN st : ~(t >= st[j].resetTime)} |-> st[k]]

\* RateLimitStore.cleanup
StoreCleanup(st, t) == [k \in {j \in DOMAIN st : ~(t > st[j].resetTime)} |-> st[k]]

(***************************************************************************)
(* rateLimiter.js: createRateLimiter                                       *)
(***************************************************************************)
Max(a, b) == IF a > b THEN a ELSE b

\* the key generators: the default (req.ip), the auth limiter's, one that throws
KeyThrows(lim) == lim.keyGenerator = "throws"
\* the auth limiter's key generator leaving the username out of the key
KeyOf_AddressOnly(lim, req) ==
    IF lim.keyGenerator = "auth"
    THEN <<"auth", ":", req.ip>>
    ELSE <<req.ip>>

\* `auth:${req.ip}:${username}` with username = req.body?.username || 'unknown',
\* or req.ip; the address is one character of the key
KeyOf(lim, req) ==
    IF lim.keyGenerator = "auth"
    THEN <<"auth", ":", req.ip, ":">>
         \o (IF req.username # <<>> THEN req.username ELSE Unknown)
    ELSE <<req.ip>>

\* Math.ceil(a / b)
CeilDiv(a, b) == (a + b - 1) \div b

\* what a limiter call did: whether it called next() without an error
\* (allowed), the error it passed to next, and the headers it set
NoOut == [called |-> FALSE, key |-> <<>>, allowed |-> FALSE, count |-> 0, resetTime |-> 0,
          headers |-> FALSE, limit |-> 0, remaining |-> 0, reset |-> 0, error |-> NoRet]

\* the middleware rejecting the call that reaches the limit
Limiter_AtLimit(lim, req, st, t) ==
    IF KeyThrows(lim)
    THEN [out |-> [NoOut EXCEPT !.called = TRUE,
                                !.error = PlainError("Key generation error")],
          store |-> st]
    ELSE LET key == KeyOf(lim, req)
             r == StoreIncrement(st, key, lim.windowMs, t)
         IN [out |-> [called |-> TRUE, key |-> key,
                      allowed |-> ~(r.count >= lim.maxRequests),
                      count |-> r.count, resetTime |-> r.resetTime,
                      headers |-> TRUE, limit |-> lim.maxRequests,
                      remaining |-> Max(0, lim.maxRequests - r.count),
                      reset |-> CeilDiv(r.resetTime, TicksPerSecond),
                      error |-> IF r.count >= lim.maxRequests
                                THEN RateLimitError(lim.message) ELSE NoRet],
             store |-> r.store]

\* the auth limiter letting one request more through
authRateLimiter_OneMore ==
    [windowMs |-> AuthWindowMs, maxRequests |-> AuthMaxRequests + 1,
     message |-> "Too many login attempts, please try again later",
     keyGenerator |-> "auth"]

\* the middleware calling next() without the error when the key generator throws
Limiter_SwallowsKeyError(lim, req, st, t) ==
    IF KeyThrows(lim)
    THEN [out |-> [NoOut EXCEPT !.called = TRUE, !.allowed = TRUE],
          store |-> st]
    ELSE LET key == KeyOf(lim, req)
             r == StoreIncrement(st, key, lim.windowMs, t)
         IN [out |-> [called |-> TRUE, key |-> key,
                      allowed |-> ~(r.count > lim.maxRequests),
                      count |-> r.count, resetTime |-> r.resetTime,
                      headers |-> TRUE, limit |-> lim.maxRequests,
                      remaining |-> Max(0, lim.maxRequests - r.count),
                      reset |-> CeilDiv(r.resetTime, TicksPerSecond),
                      error |-> IF r.count > lim.maxRequests
                                THEN RateLimitError(lim.message) ELSE NoRet],
             store |-> r.store]

\* the middleware reporting maxRequests - count as the remaining count
Limiter_RawRemaining(lim, req, st, t) ==
    IF KeyThrows(lim)
    THEN [out |-> [NoOut EXCEPT !.called = TRUE,
                                !.error = PlainError("Key generation error")],
          store |-> st]
    ELSE LET key == KeyOf(lim, req)
             r == StoreIncrement(st, key, lim.windowMs, t)
         IN [out |-> [called |-> TRUE, key |-> key,
                      allowed |-> ~(r.count > lim.maxRequests),
                      count |-> r.count, resetTime |-> r.resetTime,
                      headers |-> TRUE, limit |-> lim.maxRequests,
                      remaining |-> lim.maxRequests - r.count,
                      reset |-> CeilDiv(r.resetTime, TicksPerSecond),
                      error |-> IF r.count > lim.maxRequests
                                THEN RateLimitError(lim.message) ELSE NoRet],
             store |-> r.store]

\* the middleware: what it reports and the map it leaves
Limiter(lim, req, st, t) ==
    IF KeyThrows(lim)
    THEN [out |-> [NoOut EXCEPT !.called = TRUE,
                                !.error = PlainError("Key generation error")],
          store |-> st]
    ELSE LET key == KeyOf(lim, req)
             r == StoreIncrement(st, key, lim.windowMs, t)
         IN [out |-> [called |-> TRUE, key |-> key,
                      allowed |-> ~(r.count > lim.maxRequests),
                      count |-> r.count, resetTime |-> r.resetTime,
                      headers |-> TRUE, limit |-> lim.maxRequests,
                      remaining |-> Max(0, lim.maxRequests - r.count),
                      reset |-> CeilDiv(r.resetTime, TicksPerSecond),
                      error |-> IF r.count > lim.maxRequests
                                THEN RateLimitError(lim.message) ELSE NoRet],
             store |-> r.store]

authRateLimiter ==
    [windowMs |-> AuthWindowMs, maxRequests |-> AuthMaxRequests,
     message |-> "Too many login attempts, please try again later",
     keyGenerator |-> "auth"]

apiRateLimiter ==
    [windowMs |-> ApiWindowMs, maxRequests |-> ApiMaxRequests,
     message |-> "Too many requests, please try again later",
     keyGenerator |-> "ip"]

\* createRateLimiter({windowMs, maxRequests})
createRateLimiter(windowMs, maxRequests) ==
    [windowMs |-> windowMs, maxRequests |-> maxRequests,
     message |-> "Too many requests, please try again later",
     keyGenerator |-> "ip"]

(***************************************************************************)
(* Initial state: one registered, active or deactivated identity (alice)   *)
(* that has never failed a login; no rate-limit record; no call in flight. *)
(***************************************************************************)
BaseInit ==
    /\ now = 0
    /\ \E active \in BOOLEAN :
          users = [n \in Names |->
                     IF n = Alice
                     THEN [NewUser(Alice, GoodPw, EmailA) EXCEPT !.isActive = active]
                     ELSE NoUser]
    /\ store = EmptyStore
    /\ out = NoOut
    /\ pc = [p \in Procs |-> "idle"]
    /\ arg = [p \in Procs |-> NoArg]
    /\ snap = [p \in Procs |-> NoUser]
    /\ upd = [p \in Procs |-> NoUpd]
    /\ ret = [p \in Procs |-> NoRet]
    /\ issued = NoToken
    /\ mon = [p \in Procs |-> NoMon]
    /\ trail = [n \in Names |-> <<>>]
    /\ httpLog = <<>>
    /\ hits = EmptyStore
    /\ thrown = [p \in Procs |-> NoThrow]
    /\ given = [p \in Procs |-> NoArg]

\* the services run behind the limiters of the application
Init ==
    /\ BaseInit
    /\ custom = apiRateLimiter

(***************************************************************************)
(* A call completes: the caller gets outcome r, the call's locals are gone *)
(***************************************************************************)
Done(p, r) ==
    /\ ret' = [ret EXCEPT ![p] = r]
    /\ pc' = [pc EXCEPT ![p] = "idle"]
    /\ arg' = [arg EXCEPT ![p] = NoArg]
    /\ snap' = [snap EXCEPT ![p] = NoUser]
    /\ upd' = [upd EXCEPT ![p] = NoUpd]

\* a call goes on to its first await
Goto(p, label, a) ==
    /\ pc' = [pc EXCEPT ![p] = label]
    /\ ret' = [ret EXCEPT ![p] = NoRet]
    /\ arg' = [arg EXCEPT ![p] = a]
    /\ UNCHANGED <<snap, upd>>

(***************************************************************************)
(* AuthService.login                                                       *)
(***************************************************************************)
\* validateLoginCredentials, then the call of User.findByUsername
LoginBegin(p, username, password) ==
    /\ pc[p] = "idle"
    /\ LET v == validateLoginCredentials(username, password) IN
         IF v.errors # <<>>
         THEN Done(p, ValidationError("Validation failed", v.errors))
         ELSE Goto(p, "find", [NoArg EXCEPT !.op = "login", !.username = v.username,
                                            !.password = v.password])

LoginStart(p, username, password) ==
    /\ LoginBegin(p, username, password)
    /\ UNCHANGED <<now, users, store, custom, out, issued>>

\* the collection answers findByUsername
LoginFind(p) ==
    /\ pc[p] = "find"
    /\ snap' = [snap EXCEPT ![p] = findByUsername(arg[p].username)]
    /\ pc' = [pc EXCEPT ![p] = "check"]
    /\ UNCHANGED <<now, users, store, custom, out, arg, upd, ret, issued>>

\* login telling the caller that the username matches no identity
LoginCheck_NamesMissingUser(p) ==
    /\ pc[p] = "check"
    /\ LET user == snap[p] IN
         IF ~user.exists
         THEN Done(p, AuthenticationError("User not found"))
         ELSE IF isLocked(user, now)
         THEN Done(p, [AuthenticationError("Account is locked") EXCEPT
                         !.mins = user.lockUntil - now])
         ELSE IF ~user.isActive
         THEN Done(p, AuthenticationError("Account is inactive"))
         ELSE /\ pc' = [pc EXCEPT ![p] = "compare"]
              /\ UNCHANGED <<ret, arg, snap, upd>>
    /\ UNCHANGED <<now, users, store, custom, out, issued>>

\* login asking whether the account is active before asking whether it is locked
LoginCheck_ActiveBeforeLock(p) ==
    /\ pc[p] = "check"
    /\ LET user == snap[p] IN
         IF ~user.exists
         THEN Done(p, AuthenticationError("Invalid credentials"))
         ELSE IF ~user.isActive
         THEN Done(p, AuthenticationError("Account is inactive"))
         ELSE IF isLocked(user, now)
         THEN Done(p, [AuthenticationError("Account is locked") EXCEPT
                         !.mins = user.lockUntil - now])
         ELSE /\ pc' = [pc EXCEPT ![p] = "compare"]
              /\ UNCHANGED <<ret, arg, snap, upd>>
    /\ UNCHANGED <<now, users, store, custom, out, issued>>

\* existence, lock and active checks on the loaded document, then the call
\* of comparePassword
LoginCheck(p) ==
    /\ pc[p] = "check"
    /\ LET user == snap[p] IN
         IF ~user.exists
         THEN Done(p, AuthenticationError("Invalid credentials"))
         ELSE IF isLocked(user, now)
         THEN Done(p, [AuthenticationError("Account is locked") EXCEPT
                         !.mins = user.lockUntil - now])
         ELSE IF ~user.isActive
         THEN Done(p, AuthenticationError("Account is inactive"))
         ELSE /\ pc' = [pc EXCEPT ![p] = "compare"]
              /\ UNCHANGED <<ret, arg, snap, upd>>
    /\ UNCHANGED <<now, users, store, custom, out, issued>>

\* comparePassword has answered: incrementLoginAttempts or
\* resetLoginAttempts builds its update and sends it
LoginCompare(p) ==
    /\ pc[p] = "compare"
    /\ upd' = [upd EXCEPT ![p] =
                 IF comparePassword(snap[p], arg[p].password)
                 THEN resetLoginAttempts(snap[p], now)
                 ELSE incrementLoginAttempts(snap[p], now)]
    /\ pc' = [pc EXCEPT ![p] = "apply"]
    /\ UNCHANGED <<now, users, store, custom, out, arg, snap, ret, issued>>

\* the attempts field of the 'Failed login attempt' security event, taken
\* from the document login loaded
FailedLoginEvent(username, user) ==
    [event |-> "Failed login attempt", username |-> username,
     attempts |-> user.failedLoginAttempts + 1]

\* the collection applies the update; login throws 'Invalid credentials'
\* or returns the token and the user view
LoginApply(p) ==
    /\ pc[p] = "apply"
    /\ LET name == arg[p].username
           user == snap[p]
       IN
         /\ users' = [users EXCEPT ![name] = updateOne(@, upd[p])]
         /\ IF upd[p].kind = "reset"
            THEN LET token == generateToken(name, user, now) IN
                   /\ Done(p, Success(token, [id |-> user.id, username |-> name,
                                              email |-> user.email,
                                              lastLogin |-> user.lastLogin]))
                   /\ issued' = token
            ELSE /\ Done(p, AuthenticationError("Invalid credentials"))
                 /\ UNCHANGED issued
    /\ UNCHANGED <<now, store, custom, out>>

\* the clock advances
Tick ==
    /\ now < MaxTime
    /\ now' = now + 1
    /\ UNCHANGED <<users, store, custom, out, pc, arg, snap, upd, ret, issued>>

(***************************************************************************)
(* AuthService.register                                                    *)
(***************************************************************************)
\* validateRegistrationData, then the call of User.findOne
RegisterStart(p, username, password, email) ==
    /\ pc[p] = "idle"
    /\ LET v == validateRegistrationData(username, password, email) IN
         IF v.errors # <<>>
         THEN Done(p, ValidationError("Validation failed", v.errors))
         ELSE Goto(p, "rfind", [NoArg EXCEPT !.op = "register", !.username = v.username,
                                             !.password = v.password, !.email = v.email])
    /\ UNCHANGED <<now, users, store, custom, out, issued>>

\* the documents User.findOne({$or: [{username}, {email}]}) can return
Existing(username, email) ==
    {n \in Names : /\ users[n].exists
                   /\ \/ n = username
                      \/ (email # <<>> /\ users[n].email = email)}

\* the collection answers findOne; a match throws the duplicate error,
\* no match builds the document and calls save
RegisterFind(p) ==
    /\ pc[p] = "rfind"
    /\ LET found == Existing(arg[p].username, arg[p].email)
           save == /\ pc' = [pc EXCEPT ![p] = "rsave"]
                   /\ UNCHANGED <<ret, arg, snap, upd>>
       IN
         IF found = {}
         THEN save
         ELSE \E n \in found :
                IF n = arg[p].username
                THEN Done(p, ValidationError("Username already exists", <<>>))
                ELSE IF users[n].email = arg[p].email
                THEN Done(p, ValidationError("Email already exists", <<>>))
                ELSE save
    /\ UNCHANGED <<now, users, store, custom, out, issued>>

\* the collection inserts the document, or rejects it on the unique index
\* of username (error code 11000)
RegisterSave(p) ==
    /\ pc[p] = "rsave"
    /\ LET name == arg[p].username IN
         IF name \notin Names
         THEN /\ Done(p, ValidationError("Registration failed", <<>>))
              /\ UNCHANGED <<users, issued>>
         ELSE IF users[name].exists
         THEN /\ Done(p, ValidationError("username already exists", <<>>))
              /\ UNCHANGED <<users, issued>>
         ELSE LET user == NewUser(name, arg[p].password, arg[p].email)
                  token == generateToken(name, user, now)
              IN /\ users' = [users EXCEPT ![name] = user]
                 /\ Done(p, [Success(token, [id |-> user.id, username |-> name,
                                             email |-> user.email,
                                             lastLogin |-> Null])
                               EXCEPT !.status = 201])
                 /\ issued' = token
    /\ UNCHANGED <<now, store, custom, out>>

(***************************************************************************)
(* AuthService.verifyUser                                                  *)
(***************************************************************************)
\* verifyToken, then the call of User.findById
VerifyStart(p, token) ==
    /\ pc[p] = "idle"
    /\ IF verifyToken(token, now)
       THEN Goto(p, "vfind", [NoArg EXCEPT !.op = "verify", !.token = token])
       ELSE Done(p, AuthenticationError("Invalid or expired token"))
    /\ UNCHANGED <<now, users, store, custom, out, issued>>

\* verifyUser, were it to note the instant of the verification on the identity
VerifyFind_TouchesLastLogin(p) ==
    /\ pc[p] = "vfind"
    /\ LET user == findById(arg[p].token.sub) IN
         /\ Done(p, IF ~user.exists \/ ~user.isActive
                    THEN AuthenticationError("User not found or inactive")
                    ELSE Success(NoToken, [id |-> user.id,
                                           username |-> UsernameOfId(user.id),
                                           email |-> user.email, lastLogin |-> Null]))
         /\ users' = IF user.exists /\ user.isActive
                     THEN [users EXCEPT ![UsernameOfId(user.id)].lastLogin = now]
                     ELSE users
    /\ UNCHANGED <<now, store, custom, out, issued>>

\* verifyUser, were it to ask only whether the identity exists
VerifyFind_IgnoresActive(p) ==
    /\ pc[p] = "vfind"
    /\ LET user == findById(arg[p].token.sub) IN
         Done(p, IF ~user.exists
                 THEN AuthenticationError("User not found or inactive")
                 ELSE Success(NoToken, [id |-> user.id,
                                        username |-> UsernameOfId(user.id),
                                        email |-> user.email, lastLogin |-> Null]))
    /\ UNCHANGED <<now, users, store, custom, out, issued>>

\* the collection answers findById
VerifyFind(p) ==
    /\ pc[p] = "vfind"
    /\ LET user == findById(arg[p].token.sub) IN
         Done(p, IF ~user.exists \/ ~user.isActive
                 THEN AuthenticationError("User not found or inactive")
                 ELSE Success(NoToken, [id |-> user.id,
                                        username |-> UsernameOfId(user.id),
                                        email |-> user.email, lastLogin |-> Null]))
    /\ UNCHANGED <<now, users, store, custom, out, issued>>

(***************************************************************************)
(* The store, bcrypt or jsonwebtoken throws inside a call                  *)
(***************************************************************************)
\* findByUsername rejects
LoginFindThrows(p, e) ==
    /\ pc[p] = "find"
    /\ Done(p, LoginCatch(e))
    /\ UNCHANGED <<now, users, store, custom, out, issued>>

\* comparePassword rejects
LoginCompareThrows(p, e) ==
    /\ pc[p] = "compare"
    /\ Done(p, LoginCatch(e))
    /\ UNCHANGED <<now, users, store, custom, out, issued>>

\* login returning the token though updateOne rejected the reset
LoginUpdateThrows_TokenAnyway(p, e) ==
    /\ pc[p] = "apply"
    /\ IF upd[p].kind = "reset"
       THEN LET token == generateToken(arg[p].username, snap[p], now) IN
              /\ Done(p, Success(token, [id |-> snap[p].id, username |-> arg[p].username,
                                         email |-> snap[p].email,
                                         lastLogin |-> snap[p].lastLogin]))
              /\ issued' = token
       ELSE /\ Done(p, LoginCatch(e))
            /\ UNCHANGED issued
    /\ UNCHANGED <<now, users, store, custom, out>>

\* updateOne rejects: the increment or the reset is not applied
LoginUpdateThrows(p, e) ==
    /\ pc[p] = "apply"
    /\ Done(p, LoginCatch(e))
    /\ UNCHANGED <<now, users, store, custom, out, issued>>

\* resetLoginAttempts is applied, then jwt.sign throws in generateToken
LoginSignThrows(p, e) ==
    /\ pc[p] = "apply"
    /\ upd[p].kind = "reset"
    /\ users' = [users EXCEPT ![arg[p].username] = updateOne(@, upd[p])]
    /\ Done(p, LoginCatch(e))
    /\ UNCHANGED <<now, store, custom, out, issued>>

\* findOne rejects
RegisterFindThrows(p, e) ==
    /\ pc[p] = "rfind"
    /\ Done(p, RegisterCatch(e))
    /\ UNCHANGED <<now, users, store, custom, out, issued>>

\* save rejects: no document is inserted
RegisterSaveThrows(p, e) ==
    /\ pc[p] = "rsave"
    /\ Done(p, RegisterCatch(e))
    /\ UNCHANGED <<now, users, store, custom, out, issued>>

\* save inserts the document, then jwt.sign throws in generateToken
RegisterSignThrows(p, e) ==
    /\ pc[p] = "rsave"
    /\ arg[p].username \in Names
    /\ ~users[arg[p].username].exists
    /\ users' = [users EXCEPT ![arg[p].username] =
                    NewUser(arg[p].username, arg[p].password, arg[p].email)]
    /\ Done(p, RegisterCatch(e))
    /\ UNCHANGED <<now, store, custom, out, issued>>

\* findById rejects
VerifyFindThrows(p, e) ==
    /\ pc[p] = "vfind"
    /\ Done(p, VerifyCatch(e))
    /\ UNCHANGED <<now, users, store, custom, out, issued>>

(***************************************************************************)
(* Inputs                                                                  *)
(***************************************************************************)
LoginNames == {Alice, Carl, PaddedAlice, ShortName}
LoginPasswords == {GoodPw, OtherPw, NoString}
RegisterNames == {Alice, Bob, ShortName}
RegisterPasswords == {GoodPw, WeakPw}
RegisterEmails == {NoString, EmailA, EmailB}
Forged == [NoToken EXCEPT !.jwt = TRUE, !.sub = <<"id">> \o Alice, !.username = Alice]
Tokens == {issued, Forged}

AllIdle == \A q \in Procs : pc[q] = "idle"

(***************************************************************************)
(* Spec: the service, its callers awaiting each call before the next one   *)
(***************************************************************************)
SeqLogin ==
    /\ \E u \in LoginNames, pw \in LoginPasswords : AllIdle /\ LoginStart("p1", u, pw)
    /\ UNCHANGED obsvars
SeqRegister ==
    /\ \E u \in RegisterNames, pw \in RegisterPasswords, e \in RegisterEmails :
          AllIdle /\ RegisterStart("p1", u, pw, e)
    /\ UNCHANGED obsvars
SeqVerify ==
    /\ \E t \in Tokens : AllIdle /\ VerifyStart("p1", t)
    /\ UNCHANGED obsvars
SeqLoginFind == LoginFind("p1") /\ UNCHANGED obsvars
SeqLoginCheck == LoginCheck("p1") /\ UNCHANGED obsvars
SeqLoginCompare == LoginCompare("p1") /\ UNCHANGED obsvars
SeqLoginApply == LoginApply("p1") /\ UNCHANGED obsvars
SeqRegisterFind == RegisterFind("p1") /\ UNCHANGED obsvars
SeqRegisterSave == RegisterSave("p1") /\ UNCHANGED obsvars
SeqVerifyFind == VerifyFind("p1") /\ UNCHANGED obsvars
SeqTick == Tick /\ UNCHANGED obsvars

Next ==
    \/ SeqLogin
    \/ SeqRegister
    \/ SeqVerify
    \/ SeqLoginFind
    \/ SeqLoginCheck
    \/ SeqLoginCompare
    \/ SeqLoginApply
    \/ SeqRegisterFind
    \/ SeqRegisterSave
    \/ SeqVerifyFind
    \/ SeqTick

Spec == Init /\ [][Next]_vars

(***************************************************************************)
(* ConcSpec: logins with a wrong password on alice, in flight together     *)
(***************************************************************************)
ConcLogin == (\E p \in Procs : LoginStart(p, Alice, OtherPw)) /\ UNCHANGED obsvars
ConcLoginFind == (\E p \in Procs : LoginFind(p)) /\ UNCHANGED obsvars
ConcLoginCheck == (\E p \in Procs : LoginCheck(p)) /\ UNCHANGED obsvars
ConcLoginCompare == (\E p \in Procs : LoginCompare(p)) /\ UNCHANGED obsvars
ConcLoginApply == (\E p \in Procs : LoginApply(p)) /\ UNCHANGED obsvars

ConcNext ==
    \/ ConcLogin
    \/ ConcLoginFind
    \/ ConcLoginCheck
    \/ ConcLoginCompare
    \/ ConcLoginApply
    \/ SeqTick

ConcSpec == Init /\ [][ConcNext]_vars

(***************************************************************************)
(* LockoutSpec: sequential logins, with the record of the attempts made on *)
(* each account since its last successful login.  Instants are kept for    *)
(* the attempt that reaches the threshold and the one after it only.       *)
(***************************************************************************)
Attempt(tr, pwOk, ans, tChk, tUpd) ==
    IF Len(tr) >= MaxLoginAttempts + 1 THEN tr
    ELSE Append(tr, [pwOk |-> pwOk, status |-> ans.status, msg |-> ans.msg,
                     tChk |-> IF Len(tr) + 1 >= MaxLoginAttempts THEN tChk ELSE 0,
                     tUpd |-> IF Len(tr) + 1 >= MaxLoginAttempts THEN tUpd ELSE 0])

\* what the observer notes when login takes a step
ObserveLogin(p) ==
    LET name == arg[p].username
        pwOk == comparePassword(snap[p], arg[p].password)
    IN
      /\ mon' = [mon EXCEPT ![p] =
                   IF pc'[p] = "idle" THEN NoMon
                   ELSE IF pc[p] = "check" THEN [@ EXCEPT !.chk = now]
                   ELSE @]
      /\ trail' =
           IF pc'[p] = "idle" /\ pc[p] \in {"check", "apply"} /\ snap[p].exists
           THEN [trail EXCEPT ![name] =
                   IF ret'[p].type = "ok" /\ Len(@) # MaxLoginAttempts
                   THEN <<>>
                   ELSE Attempt(@, pwOk, ret'[p],
                                IF pc[p] = "check" THEN now ELSE mon[p].chk,
                                IF pc[p] = "apply" THEN upd[p].t ELSE Null)]
           ELSE trail
      /\ UNCHANGED <<httpLog, hits, thrown, given>>

LkLogin ==
    /\ \E u \in {Alice, Carl}, pw \in {GoodPw, OtherPw} : AllIdle /\ LoginStart("p1", u, pw)
    /\ UNCHANGED obsvars
LkLoginFind == LoginFind("p1") /\ ObserveLogin("p1")
LkLoginCheck == LoginCheck("p1") /\ ObserveLogin("p1")
LkLoginCompare == LoginCompare("p1") /\ ObserveLogin("p1")
LkLoginApply == LoginApply("p1") /\ ObserveLogin("p1")

LockoutNext ==
    \/ LkLogin
    \/ LkLoginFind
    \/ LkLoginCheck
    \/ LkLoginCompare
    \/ LkLoginApply
    \/ SeqTick

LockoutSpec == Init /\ [][LockoutNext]_vars

(***************************************************************************)
(* HttpSpec: POST /auth/login through app.js and auth.routes.js, one       *)
(* request at a time: apiRateLimiter, authRateLimiter, the controller.     *)
(***************************************************************************)
Ips == {"ip1", "ip2"}

\* the record of a request on alice; instants are kept where a later
\* request's answer depends on them
HttpEntry(log, pwOk, ans, tArr, tChk, tUpd) ==
    IF Len(log) >= MaxLoginAttempts + 1 THEN log
    ELSE Append(log, [pwOk |-> pwOk, status |-> ans.status, msg |-> ans.msg,
                      tArr |-> IF Len(log) + 1 \in {1, MaxLoginAttempts + 1}
                               THEN tArr ELSE 0,
                      tChk |-> IF Len(log) + 1 = MaxLoginAttempts + 1 THEN tChk ELSE 0,
                      tUpd |-> IF Len(log) + 1 = MaxLoginAttempts THEN tUpd ELSE 0])

\* the request reaching the controller though the auth limiter rejected it
HttpLogin_LimiterAdvisory(p, ip, username, password) ==
    /\ pc[p] = "idle"
    /\ LET req == [ip |-> ip, username |-> username]
           api == Limiter(apiRateLimiter, req, store, now)
           auth == Limiter(authRateLimiter, req, api.store, now)
       IN
         /\ api.out.count <= MaxCount
         /\ IF ~api.out.allowed
            THEN /\ Done(p, api.out.error)
                 /\ store' = api.store
                 /\ out' = api.out
            ELSE /\ LoginBegin(p, username, password)
                 /\ store' = auth.store
                 /\ out' = auth.out
    /\ UNCHANGED <<now, users, custom, issued>>

\* the request runs the two limiters and, when both call next(), the
\* controller, which calls authService.login
HttpLogin(p, ip, username, password) ==
    /\ pc[p] = "idle"
    /\ LET req == [ip |-> ip, username |-> username]
           api == Limiter(apiRateLimiter, req, store, now)
           auth == Limiter(authRateLimiter, req, api.store, now)
       IN
         /\ api.out.count <= MaxCount
         /\ IF ~api.out.allowed
            THEN /\ Done(p, api.out.error)
                 /\ store' = api.store
                 /\ out' = api.out
            ELSE IF ~auth.out.allowed
            THEN /\ Done(p, auth.out.error)
                 /\ store' = auth.store
                 /\ out' = auth.out
            ELSE /\ LoginBegin(p, username, password)
                 /\ store' = auth.store
                 /\ out' = auth.out
    /\ UNCHANGED <<now, users, custom, issued>>

\* what the observer notes of a request on alice
ObserveHttp(p, pwOk) ==
    /\ mon' = [mon EXCEPT ![p] =
                 IF pc'[p] = "idle" THEN NoMon
                 ELSE IF pc[p] = "idle" THEN [NoMon EXCEPT !.arr = now, !.pwOk = pwOk]
                 ELSE IF pc[p] = "check" THEN [@ EXCEPT !.chk = now]
                 ELSE @]
    /\ httpLog' =
         IF pc'[p] # "idle" THEN httpLog
         ELSE IF pc[p] = "idle" THEN HttpEntry(httpLog, pwOk, ret'[p], now, Null, Null)
         ELSE IF arg[p].username # Alice THEN httpLog
         ELSE HttpEntry(httpLog, mon[p].pwOk, ret'[p], mon[p].arr,
                        IF pc[p] = "check" THEN now ELSE mon[p].chk,
                        IF pc[p] = "apply" THEN upd[p].t ELSE Null)
    /\ UNCHANGED <<trail, hits, thrown, given>>

HttpLoginAlice ==
    \E pw \in {GoodPw, OtherPw} :
        /\ AllIdle
        /\ HttpLogin("p1", "ip1", Alice, pw)
        /\ ObserveHttp("p1", pw = GoodPw)
HttpLoginFind == LoginFind("p1") /\ ObserveHttp("p1", FALSE)
HttpLoginCheck == LoginCheck("p1") /\ ObserveHttp("p1", FALSE)
HttpLoginCompare == LoginCompare("p1") /\ ObserveHttp("p1", FALSE)
HttpLoginApply == LoginApply("p1") /\ ObserveHttp("p1", FALSE)

HttpNext ==
    \/ HttpLoginAlice
    \/ HttpLoginFind
    \/ HttpLoginCheck
    \/ HttpLoginCompare
    \/ HttpLoginApply
    \/ SeqTick

HttpSpec == Init /\ [][HttpNext]_vars

(***************************************************************************)
(* RLSpec: calls of one limiter made by createRateLimiter({windowMs,       *)
(* maxRequests}), the store's cleanup timer, and the clock.                *)
(***************************************************************************)
RLInit ==
    /\ BaseInit
    /\ \E w \in 1..MaxWindow, r \in 1..MaxLimit : custom = createRateLimiter(w, r)

\* the limiter middleware handles a request
LimiterCall(lim, req) ==
    /\ LET r == Limiter(lim, req, store, now) IN
         /\ r.out.count <= MaxCount
         /\ store' = r.store
         /\ out' = r.out
    /\ UNCHANGED <<now, users, custom, pc, arg, snap, upd, ret, issued>>

\* setInterval(() => this.cleanup(), 60000)
Cleanup ==
    /\ store' = StoreCleanup(store, now)
    /\ UNCHANGED <<now, users, custom, out, pc, arg, snap, upd, ret, issued>>

\* the observer counts the calls made for a key within windowMs of the
\* first one; a call made later is the first call of the next window
ObserveCall(key, windowMs) ==
    /\ hits' =
         IF key \notin DOMAIN hits
         THEN MapSet(hits, key, [t0 |-> now, n |-> 1, gen |-> 1])
         ELSE IF now - hits[key].t0 > windowMs
         THEN MapSet(hits, key, [t0 |-> now, n |-> 1, gen |-> hits[key].gen + 1])
         ELSE MapSet(hits, key, [hits[key] EXCEPT !.n = @ + 1])
    /\ UNCHANGED <<mon, trail, httpLog, thrown, given>>

RLCall ==
    \E ip \in Ips :
        /\ LimiterCall(custom, [ip |-> ip, username |-> NoString])
        /\ ObserveCall(<<ip>>, custom.windowMs)
RLCleanup == Cleanup /\ UNCHANGED obsvars

RLNext ==
    \/ RLCall
    \/ RLCleanup
    \/ SeqTick

RLSpec == RLInit /\ [][RLNext]_vars

(***************************************************************************)
(* MwSpec: every limiter made by createRateLimiter uses the one store of   *)
(* the module, so limiters with the default key generator share the record *)
(* of an address.  Requests go through limiters of any window and limit    *)
(* and through one whose key generator throws; store.get is also called on *)
(* its own, as the tests do.  The requests come from one address.          *)
(***************************************************************************)
Limiters ==
    {createRateLimiter(w, r) : w \in 1..MaxWindow, r \in 1..MaxLimit}
    \cup {[createRateLimiter(1, 1) EXCEPT !.keyGenerator = "throws"]}

\* a request goes through limiter lim
AnyLimiterCall(lim, req) ==
    /\ custom' = lim
    /\ LET r == Limiter(lim, req, store, now) IN
         /\ r.out.count <= MaxCount
         /\ store' = r.store
         /\ out' = r.out
    /\ UNCHANGED <<now, users, pc, arg, snap, upd, ret, issued>>

\* store.get(key)
GetCall(key) ==
    /\ store' = StoreGet(store, key, now).store
    /\ UNCHANGED <<now, users, custom, out, pc, arg, snap, upd, ret, issued>>

\* the observer keeps, per key, the instant and the window length of the
\* call that opened the current window, the calls counted since, and the
\* number of windows opened so far
ObserveWindow(lim, key) ==
    /\ hits' =
         IF KeyThrows(lim) THEN hits
         ELSE IF key \notin DOMAIN hits
         THEN MapSet(hits, key, [t0 |-> now, w |-> lim.windowMs, n |-> 1, gen |-> 1])
         ELSE IF now > hits[key].t0 + hits[key].w
         THEN MapSet(hits, key, [t0 |-> now, w |-> lim.windowMs, n |-> 1,
                                 gen |-> hits[key].gen + 1])
         ELSE MapSet(hits, key, [hits[key] EXCEPT !.n = @ + 1])
    /\ UNCHANGED <<mon, trail, httpLog, thrown, given>>

MwCall ==
    \E lim \in Limiters :
        /\ AnyLimiterCall(lim, [ip |-> "ip1", username |-> NoString])
        /\ ObserveWindow(lim, <<"ip1">>)
MwGet == GetCall(<<"ip1">>) /\ UNCHANGED obsvars

MwNext ==
    \/ MwCall
    \/ MwGet
    \/ RLCleanup
    \/ SeqTick

MwSpec == Init /\ [][MwNext]_vars

(***************************************************************************)
(* BurstSpec: requests from one address are in flight together.  Each has  *)
(* arrived and waits for its turn on the event loop; the limiter           *)
(* middleware is one synchronous function (it awaits nothing between       *)
(* store.get and store.set), so the runtime runs it to completion for one  *)
(* request before it starts it for another, in any order.                  *)
(***************************************************************************)
\* the limiter called next() without an error
Passed == [NoRet EXCEPT !.type = "next"]

\* a request arrives
RequestArrives(p) ==
    /\ pc[p] = "idle"
    /\ Goto(p, "limiter", [NoArg EXCEPT !.op = "request"])
    /\ UNCHANGED <<now, users, store, custom, out, issued>>

\* the middleware runs for the request of p
RequestLimited(p) ==
    /\ pc[p] = "limiter"
    /\ LET r == Limiter(custom, [ip |-> "ip1", username |-> NoString], store, now) IN
         /\ r.out.count <= MaxCount
         /\ store' = r.store
         /\ out' = r.out
         /\ Done(p, IF r.out.allowed THEN Passed ELSE r.out.error)
    /\ UNCHANGED <<now, users, custom, issued>>

\* the observer keeps, for the burst that began when a request arrived with
\* no other in flight: its instant, the count and the end of the window
\* the key's record had then (0 and Null without a live record), and the
\* requests that have arrived and that the limiter has handled since
ObserveBurst(p) ==
    LET key == <<"ip1">>
        live == StoreGet(store, key, now).record
    IN
      /\ hits' =
           IF pc[p] = "idle" /\ (AllIdle \/ key \notin DOMAIN hits)
           THEN MapSet(hits, key,
                       [t0 |-> now, base |-> live.count,
                        reset |-> IF live.count = 0 THEN Null ELSE live.resetTime,
                        n |-> 1, h |-> 0])
           ELSE IF pc[p] = "idle"
           THEN MapSet(hits, key, [hits[key] EXCEPT !.n = @ + 1])
           ELSE MapSet(hits, key, [hits[key] EXCEPT !.h = @ + 1])
      /\ UNCHANGED <<mon, trail, httpLog, thrown, given>>

BurstArrive == \E p \in Procs : RequestArrives(p) /\ ObserveBurst(p)
BurstLimited == \E p \in Procs : RequestLimited(p) /\ ObserveBurst(p)

BurstNext ==
    \/ BurstArrive
    \/ BurstLimited
    \/ SeqTick

BurstSpec == RLInit /\ [][BurstNext]_vars

(***************************************************************************)
(* AuthKeySpec: requests through authRateLimiter from two addresses, with  *)
(* the username of an account, with the text of the placeholder as         *)
(* username, and with an empty or missing username.                        *)
(***************************************************************************)
AuthRequests ==
    {[ip |-> "ip1", username |-> Alice], [ip |-> "ip1", username |-> Unknown],
     [ip |-> "ip1", username |-> NoString], [ip |-> "ip2", username |-> Alice]}

\* the observer counts the requests per address and submitted username
\* within the window of the first one, and under <<ip, Pooled>> the
\* requests of an address that get the placeholder or spell it out
Pooled == <<"*">>

ObserveAuth(req) ==
    LET Count(h, sig) ==
            IF sig \notin DOMAIN h \/ now - h[sig].t0 > AuthWindowMs
            THEN MapSet(h, sig, [t0 |-> now, n |-> 1])
            ELSE MapSet(h, sig, [h[sig] EXCEPT !.n = @ + 1])
        raw == Count(hits, <<req.ip, req.username>>)
    IN
      /\ hits' = IF req.username \in {NoString, Unknown}
                 THEN Count(raw, <<req.ip, Pooled>>)
                 ELSE raw
      /\ UNCHANGED <<mon, trail, httpLog, thrown, given>>

AuthKeyCall ==
    \E req \in AuthRequests :
        /\ Limiter(authRateLimiter, req, store, now).out.count <= MaxPerKey
        /\ LimiterCall(authRateLimiter, req)
        /\ ObserveAuth(req)

AuthKeyNext ==
    \/ AuthKeyCall
    \/ SeqTick

AuthKeySpec == Init /\ [][AuthKeyNext]_vars

(***************************************************************************)
(* FaultSpec: the service called one call at a time, with names too short  *)
(* and too long among the inputs, and with the store, bcrypt and           *)
(* jsonwebtoken free to throw inside any call.                             *)
(***************************************************************************)
\* 51 characters, 50 of them after sanitizeString
PaddedLong == <<" ">> \o [i \in 1..50 |-> "a"]

FaultLoginNames == {Alice, ShortName, LongName, PaddedLong}
FaultRegisterNames == {Alice, Bob, LongName}
FaultLoginPasswords == {GoodPw, OtherPw, NoString}
FaultRegisterEmails == {NoString, BadEmail}

\* the observer notes what was thrown inside the call in this step
ObserveThrow(p, e) ==
    /\ thrown' = [thrown EXCEPT ![p] = e]
    /\ UNCHANGED <<mon, trail, httpLog, hits, given>>

\* the observer notes the arguments of the call that starts in this step
ObserveGiven(p, a) ==
    /\ given' = [given EXCEPT ![p] = a]
    /\ thrown' = [thrown EXCEPT ![p] = NoThrow]
    /\ UNCHANGED <<mon, trail, httpLog, hits>>

FtLogin ==
    \E u \in FaultLoginNames, pw \in FaultLoginPasswords :
        /\ AllIdle
        /\ LoginStart("p1", u, pw)
        /\ ObserveGiven("p1", [NoArg EXCEPT !.op = "login", !.username = u,
                                            !.password = pw])
FtRegister ==
    \E u \in FaultRegisterNames, pw \in RegisterPasswords, e \in FaultRegisterEmails :
        /\ AllIdle
        /\ RegisterStart("p1", u, pw, e)
        /\ ObserveGiven("p1", [NoArg EXCEPT !.op = "register", !.username = u,
                                            !.password = pw, !.email = e])
FtVerify ==
    \E t \in Tokens :
        /\ AllIdle
        /\ VerifyStart("p1", t)
        /\ ObserveGiven("p1", [NoArg EXCEPT !.op = "verify", !.token = t])
FtLoginFind == LoginFind("p1") /\ UNCHANGED obsvars
FtLoginCheck == LoginCheck("p1") /\ UNCHANGED obsvars
FtLoginCompare == LoginCompare("p1") /\ UNCHANGED obsvars
FtLoginApply == LoginApply("p1") /\ UNCHANGED obsvars
FtRegisterFind == RegisterFind("p1") /\ UNCHANGED obsvars
FtRegisterSave == RegisterSave("p1") /\ UNCHANGED obsvars
FtVerifyFind == VerifyFind("p1") /\ UNCHANGED obsvars
FtLoginFindThrows ==
    \E e \in StoreErrors : LoginFindThrows("p1", e) /\ ObserveThrow("p1", e)
FtLoginCompareThrows ==
    \E e \in StoreErrors : LoginCompareThrows("p1", e) /\ ObserveThrow("p1", e)
FtLoginUpdateThrows ==
    \E e \in StoreErrors : LoginUpdateThrows("p1", e) /\ ObserveThrow("p1", e)
FtLoginSignThrows == LoginSignThrows("p1", JwtError) /\ ObserveThrow("p1", JwtError)
FtRegisterFindThrows ==
    \E e \in StoreErrors : RegisterFindThrows("p1", e) /\ ObserveThrow("p1", e)
FtRegisterSaveThrows ==
    \E e \in StoreErrors : RegisterSaveThrows("p1", e) /\ ObserveThrow("p1", e)
FtRegisterSignThrows ==
    RegisterSignThrows("p1", JwtError) /\ ObserveThrow("p1", JwtError)
FtVerifyFindThrows ==
    \E e \in StoreErrors : VerifyFindThrows("p1", e) /\ ObserveThrow("p1", e)

FaultNext ==
    \/ FtLogin
    \/ FtRegister
    \/ FtVerify
    \/ FtLoginFind
    \/ FtLoginCheck
    \/ FtLoginCompare
    \/ FtLoginApply
    \/ FtRegisterFind
    \/ FtRegisterSave
    \/ FtVerifyFind
    \/ FtLoginFindThrows
    \/ FtLoginCompareThrows
    \/ FtLoginUpdateThrows
    \/ FtLoginSignThrows
    \/ FtRegisterFindThrows
    \/ FtRegisterSaveThrows
    \/ FtRegisterSignThrows
    \/ FtVerifyFindThrows
    \/ SeqTick

FaultSpec == Init /\ [][FaultNext]_vars

(***************************************************************************)
(* ValSpec: the validators of validators.js applied to one input each.     *)
(* The initial state holds the input (given), an action applies one        *)
(* validator: its result is the answer (ret) and, for the two validators   *)
(* that return the sanitised fields, the fields returned (arg).            *)
(***************************************************************************)
\* a character of no class that validatePassword looks for
Filler == "~"

\* the characters of cs in a fixed order, filled up to len characters
PwOf(cs, len) ==
    LET head == SelectSeq(<<"A", "a", "1", "!">>, LAMBDA c : c \in cs)
    IN head \o [i \in 1..(len - Len(head)) |-> Filler]

ShortBadName == <<"a", "!">>

ValUsernames == {NoString, Alice, PaddedAlice, ShortName, BadCharName, ShortBadName}
ValPasswords ==
    {PwOf(cs, len) : cs \in SUBSET {"A", "a", "1", "!"},
                     len \in (8 - PwSlack)..(8 + PwSlack)}
      \cup {NoString}
ValEmails == {NoString, EmailA, BadEmail}

ValInit ==
    /\ now = 0
    /\ users = [n \in Names |-> NoUser]
    /\ store = EmptyStore
    /\ custom = apiRateLimiter
    /\ out = NoOut
    /\ pc = [p \in Procs |-> "idle"]
    /\ arg = [p \in Procs |-> NoArg]
    /\ snap = [p \in Procs |-> NoUser]
    /\ upd = [p \in Procs |-> NoUpd]
    /\ ret = [p \in Procs |-> NoRet]
    /\ issued = NoToken
    /\ mon = [p \in Procs |-> NoMon]
    /\ trail = [n \in Names |-> <<>>]
    /\ httpLog = <<>>
    /\ hits = EmptyStore
    /\ thrown = [p \in Procs |-> NoThrow]
    /\ \E u \in ValUsernames, pw \in ValPasswords, e \in ValEmails :
          given = [p \in Procs |->
                     IF p = "p1"
                     THEN [NoArg EXCEPT !.username = u, !.password = pw, !.email = e]
                     ELSE NoArg]

\* the validator named fn has returned the list errors
Returned(fn, errors, fields) ==
    /\ ret' = [ret EXCEPT !["p1"] = [NoRet EXCEPT !.type = fn, !.errors = errors]]
    /\ arg' = [arg EXCEPT !["p1"] = fields]
    /\ UNCHANGED <<now, users, store, custom, out, pc, snap, upd, issued>>
    /\ UNCHANGED obsvars

\* the validator has thrown ValidationError or returned the sanitised fields
Validated(fn, v) ==
    /\ ret' = [ret EXCEPT !["p1"] =
                  IF v.errors # <<>>
                  THEN ValidationError("Validation failed", v.errors)
                  ELSE [NoRet EXCEPT !.type = fn]]
    /\ arg' = [arg EXCEPT !["p1"] =
                  IF v.errors # <<>> THEN [NoArg EXCEPT !.op = fn]
                  ELSE [NoArg EXCEPT !.op = fn, !.username = v.username,
                                     !.password = v.password, !.email = v.email]]
    /\ UNCHANGED <<now, users, store, custom, out, pc, snap, upd, issued>>
    /\ UNCHANGED obsvars

ValUsername ==
    Returned("validateUsername", validateUsername(given["p1"].username), NoArg)
ValPassword ==
    Returned("validatePassword", validatePassword(given["p1"].password), NoArg)
ValEmail ==
    Returned("validateEmail", validateEmail(given["p1"].email), NoArg)
ValSanitize ==
    Returned("sanitizeString", <<>>,
             [NoArg EXCEPT !.op = "sanitizeString",
                           !.username = sanitizeString(given["p1"].username)])
ValLogin ==
    Validated("validateLoginCredentials",
              validateLoginCredentials(given["p1"].username, given["p1"].password))
ValRegistration ==
    Validated("validateRegistrationData",
              validateRegistrationData(given["p1"].username, given["p1"].password,
                                       given["p1"].email))

ValNext ==
    \/ ValUsername
    \/ ValPassword
    \/ ValEmail
    \/ ValSanitize
    \/ ValLogin
    \/ ValRegistration

ValSpec == ValInit /\ [][ValNext]_vars

(***************************************************************************)
(* RegSpec: register called by two callers at once on an empty store, so   *)
(* that both can pass the findOne check before either saves.               *)
(***************************************************************************)
RegInit ==
    /\ now = 0
    /\ users = [n \in Names |-> NoUser]
    /\ store = EmptyStore
    /\ custom = apiRateLimiter
    /\ out = NoOut
    /\ pc = [p \in Procs |-> "idle"]
    /\ arg = [p \in Procs |-> NoArg]
    /\ snap = [p \in Procs |-> NoUser]
    /\ upd = [p \in Procs |-> NoUpd]
    /\ ret = [p \in Procs |-> NoRet]
    /\ issued = NoToken
    /\ mon = [p \in Procs |-> NoMon]
    /\ trail = [n \in Names |-> <<>>]
    /\ httpLog = <<>>
    /\ hits = EmptyStore
    /\ thrown = [p \in Procs |-> NoThrow]
    /\ given = [p \in Procs |-> NoArg]

RgRegister ==
    /\ \E p \in Procs, u \in Names, e \in RegisterEmails :
          RegisterStart(p, u, GoodPw, e)
    /\ UNCHANGED obsvars
RgRegisterFind == (\E p \in Procs : RegisterFind(p)) /\ UNCHANGED obsvars
RgRegisterSave == (\E p \in Procs : RegisterSave(p)) /\ UNCHANGED obsvars

RegNext ==
    \/ RgRegister
    \/ RgRegisterFind
    \/ RgRegisterSave
    \/ SeqTick

RegSpec == RegInit /\ [][RegNext]_vars

(***************************************************************************)
(* TokenSpec: tokens issued by login, then given to verifyUser, while the  *)
(* clock advances and the store's owner deactivates or removes the         *)
(* identity.  HttpVerifySpec: tokens issued by login, then sent to         *)
(* GET /auth/verify.                                                       *)
(***************************************************************************)
\* a string that is no JWT, and the token issued last under another issuer
Garbled == [NoToken EXCEPT !.sub = <<"x">>]
OtherIssuer == [issued EXCEPT !.iss = "other-issuer"]
TokenInputs == {issued, Forged, Garbled, OtherIssuer}

\* AuthController.verify, were verifyToken to pass on the reason jwt.verify gives
HttpVerify_ReportsFault(p, ip, hasHeader, token) ==
    /\ pc[p] = "idle"
    /\ LET api == Limiter(apiRateLimiter, [ip |-> ip, username |-> <<>>], store, now)
       IN
         /\ api.out.count <= MaxCount
         /\ store' = api.store
         /\ out' = api.out
         /\ IF ~api.out.allowed THEN Done(p, api.out.error)
            ELSE IF ~hasHeader
            THEN Done(p, [NoRet EXCEPT !.type = "response", !.status = 401,
                                       !.msg = "No token provided"])
            ELSE IF verifyToken(token, now)
            THEN Goto(p, "vfind", [NoArg EXCEPT !.op = "verify", !.token = token])
            ELSE Done(p, AuthenticationError(jwtVerify(token, now)))
    /\ UNCHANGED <<now, users, custom, issued>>

\* AuthController.verify behind apiRateLimiter: the answer without a token,
\* or the call of authService.verifyUser
HttpVerify(p, ip, hasHeader, token) ==
    /\ pc[p] = "idle"
    /\ LET api == Limiter(apiRateLimiter, [ip |-> ip, username |-> <<>>], store, now)
       IN
         /\ api.out.count <= MaxCount
         /\ store' = api.store
         /\ out' = api.out
         /\ IF ~api.out.allowed THEN Done(p, api.out.error)
            ELSE IF ~hasHeader
            THEN Done(p, [NoRet EXCEPT !.type = "response", !.status = 401,
                                       !.msg = "No token provided"])
            ELSE IF verifyToken(token, now)
            THEN Goto(p, "vfind", [NoArg EXCEPT !.op = "verify", !.token = token])
            ELSE Done(p, AuthenticationError("Invalid or expired token"))
    /\ UNCHANGED <<now, users, custom, issued>>

\* the owner of the store deactivates or removes an identity
Deactivate(n) ==
    /\ users[n].exists /\ users[n].isActive
    /\ \A p \in Procs : arg[p].op # "login"
    /\ users' = [users EXCEPT ![n].isActive = FALSE]
    /\ UNCHANGED <<now, store, custom, out, pc, arg, snap, upd, ret, issued>>
Remove(n) ==
    /\ users[n].exists
    /\ \A p \in Procs : arg[p].op # "login"
    /\ users' = [users EXCEPT ![n] = NoUser]
    /\ UNCHANGED <<now, store, custom, out, pc, arg, snap, upd, ret, issued>>

\* the observer notes the token given and, when verifyToken rejects it, for
\* which reason and with which answer
ObserveToken(p, token) ==
    /\ given' = [given EXCEPT ![p] = [NoArg EXCEPT !.op = "verify", !.token = token]]
    /\ hits' = IF jwtVerify(token, now) # ""
               THEN MapSet(hits, <<"rejected", jwtVerify(token, now)>>, ret'[p])
               ELSE hits
    /\ UNCHANGED <<mon, trail, httpLog, thrown>>

\* the observer notes the answer of verifyUser, and forgets it when the
\* store changes
ObserveVerified(p) ==
    /\ hits' = MapSet(hits, <<"verified">>,
                       [token |-> arg[p].token, answer |-> ret'[p],
                        again |-> /\ <<"verified">> \in DOMAIN hits
                                  /\ hits[<<"verified">>].token = arg[p].token])
    /\ UNCHANGED <<mon, trail, httpLog, thrown, given>>
ObserveStoreChange ==
    /\ hits' = IF users' # users THEN MapDelete(hits, <<"verified">>) ELSE hits
    /\ UNCHANGED <<mon, trail, httpLog, thrown, given>>

TkLogin ==
    /\ AllIdle
    /\ LoginStart("p1", Alice, GoodPw)
    /\ ObserveGiven("p1", [NoArg EXCEPT !.op = "login", !.username = Alice,
                                        !.password = GoodPw])
TkLoginFind == LoginFind("p1") /\ UNCHANGED obsvars
TkLoginCheck == LoginCheck("p1") /\ UNCHANGED obsvars
TkLoginCompare == LoginCompare("p1") /\ UNCHANGED obsvars
TkLoginApply == LoginApply("p1") /\ ObserveStoreChange
TkVerify ==
    \E t \in TokenInputs :
        /\ AllIdle
        /\ VerifyStart("p1", t)
        /\ ObserveToken("p1", t)
TkVerifyFind == VerifyFind("p1") /\ ObserveVerified("p1")
TkDeactivate == Deactivate(Alice) /\ ObserveStoreChange
TkRemove == Remove(Alice) /\ ObserveStoreChange
TkTick ==
    /\ now < MaxTokenTime
    /\ now' = now + 1
    /\ UNCHANGED <<users, store, custom, out, pc, arg, snap, upd, ret, issued>>
    /\ UNCHANGED obsvars

TokenNext ==
    \/ TkLogin
    \/ TkLoginFind
    \/ TkLoginCheck
    \/ TkLoginCompare
    \/ TkLoginApply
    \/ TkVerify
    \/ TkVerifyFind
    \/ TkDeactivate
    \/ TkRemove
    \/ TkTick

TokenSpec == Init /\ [][TokenNext]_vars

HvLogin ==
    /\ AllIdle
    /\ LoginStart("p1", Alice, GoodPw)
    /\ ObserveGiven("p1", [NoArg EXCEPT !.op = "login", !.username = Alice,
                                        !.password = GoodPw])
HvLoginFind == LoginFind("p1") /\ UNCHANGED obsvars
HvLoginCheck == LoginCheck("p1") /\ UNCHANGED obsvars
HvLoginCompare == LoginCompare("p1") /\ UNCHANGED obsvars
HvLoginApply == LoginApply("p1") /\ UNCHANGED obsvars
HvVerify ==
    \E t \in TokenInputs :
        /\ AllIdle
        /\ HttpVerify("p1", "ip1", TRUE, t)
        /\ ObserveToken("p1", t)
HvNoToken ==
    /\ AllIdle
    /\ HttpVerify("p1", "ip1", FALSE, NoToken)
    /\ ObserveGiven("p1", [NoArg EXCEPT !.op = "verify"])
HvVerifyFind == VerifyFind("p1") /\ UNCHANGED obsvars

HttpVerifyNext ==
    \/ HvLogin
    \/ HvLoginFind
    \/ HvLoginCheck
    \/ HvLoginCompare
    \/ HvLoginApply
    \/ HvVerify
    \/ HvNoToken
    \/ HvVerifyFind
    \/ SeqTick

HttpVerifySpec == Init /\ [][HttpVerifyNext]_vars

(***************************************************************************)
(* LogoutSpec: POST /auth/logout behind the api limiter of the             *)
(* application, between logins and calls of verifyUser.                    *)
(***************************************************************************)
\* AuthController.logout, were it to answer as verify does on a token that
\* verifyToken rejects
HttpLogout_RejectsBadToken(p, ip, hasHeader, token) ==
    /\ pc[p] = "idle"
    /\ LET api == Limiter(apiRateLimiter, [ip |-> ip, username |-> <<>>], store, now)
       IN
         /\ api.out.count <= MaxApiCount
         /\ store' = api.store
         /\ out' = api.out
         /\ Done(p, IF ~api.out.allowed THEN api.out.error
                    ELSE IF hasHeader /\ ~verifyToken(token, now)
                    THEN AuthenticationError("Invalid or expired token")
                    ELSE [NoRet EXCEPT !.type = "response", !.status = 200,
                                       !.msg = "Logout successful"])
    /\ UNCHANGED <<now, users, custom, issued>>

\* AuthController.logout behind apiRateLimiter: verifyToken is called for
\* the log line only, and what it throws is swallowed
HttpLogout(p, ip, hasHeader, token) ==
    /\ pc[p] = "idle"
    /\ LET api == Limiter(apiRateLimiter, [ip |-> ip, username |-> <<>>], store, now)
       IN
         /\ api.out.count <= MaxApiCount
         /\ store' = api.store
         /\ out' = api.out
         /\ Done(p, IF ~api.out.allowed THEN api.out.error
                    ELSE [NoRet EXCEPT !.type = "response", !.status = 200,
                                       !.msg = "Logout successful"])
    /\ UNCHANGED <<now, users, custom, issued>>

\* the observer notes the token sent with the logout, the answer, and
\* whether verifyUser had accepted that token before
ObserveLogout(p, token) ==
    /\ given' = [given EXCEPT ![p] = [NoArg EXCEPT !.op = "logout", !.token = token]]
    /\ hits' = MapSet(hits, <<"logout">>,
                       [token |-> token, answer |-> ret'[p],
                        again |-> /\ <<"verified">> \in DOMAIN hits
                                  /\ hits[<<"verified">>].token = token
                                  /\ hits[<<"verified">>].answer.type = "ok"])
    /\ UNCHANGED <<mon, trail, httpLog, thrown>>

\* the token was accepted by verifyUser and then sent with a logout
LoggedOut(token) ==
    /\ <<"logout">> \in DOMAIN hits
    /\ hits[<<"logout">>].token = token
    /\ hits[<<"logout">>].again

\* the observer notes the answer of verifyUser and whether the token was
\* accepted and logged out before
ObserveReverified(p) ==
    /\ hits' = MapSet(hits, <<"verified">>,
                       [token |-> arg[p].token, answer |-> ret'[p],
                        again |-> LoggedOut(arg[p].token)])
    /\ UNCHANGED <<mon, trail, httpLog, thrown, given>>

LoLogin ==
    /\ AllIdle
    /\ LoginStart("p1", Alice, GoodPw)
    /\ ObserveGiven("p1", [NoArg EXCEPT !.op = "login", !.username = Alice,
                                        !.password = GoodPw])
LoLoginFind == LoginFind("p1") /\ UNCHANGED obsvars
LoLoginCheck == LoginCheck("p1") /\ UNCHANGED obsvars
LoLoginCompare == LoginCompare("p1") /\ UNCHANGED obsvars
LoLoginApply == LoginApply("p1") /\ UNCHANGED obsvars
LoLogout ==
    \E t \in {issued, Garbled} :
        /\ AllIdle
        /\ HttpLogout("p1", "ip1", TRUE, t)
        /\ ObserveLogout("p1", t)
LoLogoutNoToken ==
    /\ AllIdle
    /\ HttpLogout("p1", "ip1", FALSE, NoToken)
    /\ ObserveLogout("p1", NoToken)
LoVerify ==
    /\ AllIdle
    /\ VerifyStart("p1", issued)
    /\ ObserveGiven("p1", [NoArg EXCEPT !.op = "verify", !.token = issued])
LoVerifyFind == VerifyFind("p1") /\ ObserveReverified("p1")

LogoutNext ==
    \/ LoLogin
    \/ LoLoginFind
    \/ LoLoginCheck
    \/ LoLoginCompare
    \/ LoLoginApply
    \/ LoLogout
    \/ LoLogoutNoToken
    \/ LoVerify
    \/ LoVerifyFind
    \/ SeqTick

LogoutSpec == Init /\ [][LogoutNext]_vars

(***************************************************************************)
(* OrderSpec: logins on alice and on a missing identity, one at a time,    *)
(* while the clock advances and the store's owner deactivates alice.       *)
(***************************************************************************)
\* the observer notes the answer to a login that found its identity
\* inactive, by whether it was locked and whether the password was right
ObserveOrder(p) ==
    /\ hits' = IF snap[p].exists /\ ~snap[p].isActive
               THEN MapSet(hits, <<"inactive", isLocked(snap[p], now),
                                   comparePassword(snap[p], arg[p].password)>>,
                           ret'[p])
               ELSE hits
    /\ UNCHANGED <<mon, trail, httpLog, thrown, given>>

OrLogin ==
    \E u \in {Alice, Carl}, pw \in {GoodPw, OtherPw} :
        /\ AllIdle
        /\ LoginStart("p1", u, pw)
        /\ ObserveGiven("p1", [NoArg EXCEPT !.op = "login", !.username = u,
                                            !.password = pw])
OrLoginFind == LoginFind("p1") /\ UNCHANGED obsvars
OrLoginCheck == LoginCheck("p1") /\ ObserveOrder("p1")
OrLoginCompare == LoginCompare("p1") /\ UNCHANGED obsvars
OrLoginApply == LoginApply("p1") /\ UNCHANGED obsvars
OrDeactivate == Deactivate(Alice) /\ UNCHANGED obsvars

OrderNext ==
    \/ OrLogin
    \/ OrLoginFind
    \/ OrLoginCheck
    \/ OrLoginCompare
    \/ OrLoginApply
    \/ OrDeactivate
    \/ SeqTick

OrderSpec == Init /\ [][OrderNext]_vars

(***************************************************************************)
(* GateSpec: POST /auth/login and POST /auth/register through app.js and   *)
(* auth.routes.js, one request at a time.                                  *)
(***************************************************************************)
\* the request runs the two limiters and, when both call next(), the
\* controller, which calls authService.register
HttpRegister(p, ip, username, password, email) ==
    /\ pc[p] = "idle"
    /\ LET req == [ip |-> ip, username |-> username]
           api == Limiter(apiRateLimiter, req, store, now)
           auth == Limiter(authRateLimiter, req, api.store, now)
           v == validateRegistrationData(username, password, email)
       IN
         /\ api.out.count <= MaxCount
         /\ IF ~api.out.allowed
            THEN /\ Done(p, api.out.error)
                 /\ store' = api.store
                 /\ out' = api.out
            ELSE IF ~auth.out.allowed
            THEN /\ Done(p, auth.out.error)
                 /\ store' = auth.store
                 /\ out' = auth.out
            ELSE /\ IF v.errors # <<>>
                    THEN Done(p, ValidationError("Validation failed", v.errors))
                    ELSE Goto(p, "rfind", [NoArg EXCEPT !.op = "register",
                                                        !.username = v.username,
                                                        !.password = v.password,
                                                        !.email = v.email])
                 /\ store' = auth.store
                 /\ out' = auth.out
    /\ UNCHANGED <<now, users, custom, issued>>

\* the observer notes the request and, when it is answered 429, the answer
ObserveGate(p, a) ==
    /\ given' = [given EXCEPT ![p] = a]
    /\ hits' = IF ret'[p].status = 429 THEN MapSet(hits, <<"limited", a.op>>, ret'[p])
               ELSE hits
    /\ UNCHANGED <<mon, trail, httpLog, thrown>>

GtLogin ==
    \E pw \in {GoodPw, OtherPw} :
        /\ AllIdle
        /\ HttpLogin("p1", "ip1", Alice, pw)
        /\ ObserveGate("p1", [NoArg EXCEPT !.op = "login", !.username = Alice,
                                           !.password = pw])
GtRegister ==
    \E u \in {Alice, Bob} :
        /\ AllIdle
        /\ HttpRegister("p1", "ip1", u, GoodPw, NoString)
        /\ ObserveGate("p1", [NoArg EXCEPT !.op = "register", !.username = u,
                                           !.password = GoodPw])
GtLoginFind == LoginFind("p1") /\ UNCHANGED obsvars
GtLoginCheck == LoginCheck("p1") /\ UNCHANGED obsvars
GtLoginCompare == LoginCompare("p1") /\ UNCHANGED obsvars
GtLoginApply == LoginApply("p1") /\ UNCHANGED obsvars
GtRegisterFind == RegisterFind("p1") /\ UNCHANGED obsvars
GtRegisterSave == RegisterSave("p1") /\ UNCHANGED obsvars

GateNext ==
    \/ GtLogin
    \/ GtRegister
    \/ GtLoginFind
    \/ GtLoginCheck
    \/ GtLoginCompare
    \/ GtLoginApply
    \/ GtRegisterFind
    \/ GtRegisterSave
    \/ SeqTick

GateSpec == Init /\ [][GateNext]_vars

(***************************************************************************)
(* CleanSpec: calls of one limiter and the store's cleanup timer, beside a *)
(* second store that gets the same calls and is never cleaned up.          *)
(***************************************************************************)
\* the observer makes the call on the store that is never cleaned up (hits)
\* and notes the outcome of a call whose record cleanup had purged
ObserveShadow(lim, req) ==
    /\ hits' = Limiter(lim, req, hits, now).store
    /\ httpLog' = IF KeyOf(lim, req) \in DOMAIN hits \ DOMAIN store
                  THEN <<out'>> ELSE httpLog
    /\ UNCHANGED <<mon, trail, thrown, given>>

ClCall ==
    \E ip \in Ips :
        /\ LimiterCall(custom, [ip |-> ip, username |-> NoString])
        /\ ObserveShadow(custom, [ip |-> ip, username |-> NoString])
ClCleanup == Cleanup /\ UNCHANGED obsvars

CleanNext ==
    \/ ClCall
    \/ ClCleanup
    \/ SeqTick

CleanSpec == RLInit /\ [][CleanNext]_vars

(***************************************************************************)
(* PadSpec: POST /auth/login from one address with alice's username as it  *)
(* is and with whitespace and a null byte around it.  The observer counts  *)
(* the requests under the username login looks up.                         *)
(***************************************************************************)
PdLogin ==
    \E u \in {Alice, PaddedAlice} :
        /\ AllIdle
        /\ HttpLogin("p1", "ip1", u, OtherPw)
        /\ ObserveAuth([ip |-> "ip1", username |-> sanitizeString(u)])
PdLoginFind == LoginFind("p1") /\ UNCHANGED obsvars
PdLoginCheck == LoginCheck("p1") /\ UNCHANGED obsvars
PdLoginCompare == LoginCompare("p1") /\ UNCHANGED obsvars
PdLoginApply == LoginApply("p1") /\ UNCHANGED obsvars

PadNext ==
    \/ PdLogin
    \/ PdLoginFind
    \/ PdLoginCheck
    \/ PdLoginCompare
    \/ PdLoginApply
    \/ SeqTick

PadSpec == Init /\ [][PadNext]_vars

(***************************************************************************)
(* Properties                                                              *)
(***************************************************************************)
\* the login of process p completes in this step
Completes(p) == pc[p] # "idle" /\ pc'[p] = "idle" /\ arg[p].op = "login"

\* the login of process p applies the update of a password mismatch
Mismatch(p) == pc[p] = "apply" /\ pc'[p] = "idle" /\ upd[p].kind # "reset"

\* C1: on an active account that starts with no failed attempt, each of
\* MaxLoginAttempts consecutive logins with a wrong password fails with 401
\* 'Invalid credentials', and the next login, made before the lock set by the
\* last of them has run LockoutDuration, fails with the lock message whatever
\* its password.
C1_LockAfterThreshold ==
    \A n \in Names :
        (users[n].exists /\ users[n].isActive) =>
            LET tr == trail[n]
                N == MaxLoginAttempts
                wrong(k) == \A j \in 1..k : ~tr[j].pwOk
            IN /\ \A k \in 1..Len(tr) :
                     (k <= N /\ wrong(k)) =>
                         (tr[k].status = 401 /\ tr[k].msg = "Invalid credentials")
               /\ (/\ Len(tr) = N + 1
                   /\ wrong(N)
                   /\ tr[N + 1].tChk < tr[N].tUpd + LockoutDuration)
                  => (tr[N + 1].status = 401 /\ tr[N + 1].msg = "Account is locked")

\* C1 witness: five wrong passwords answered 'Invalid credentials', then the
\* correct password answered with the lock message
C1_Witness ==
    /\ Len(trail[Alice]) = MaxLoginAttempts + 1
    /\ \A j \in 1..MaxLoginAttempts :
          ~trail[Alice][j].pwOk /\ trail[Alice][j].msg = "Invalid credentials"
    /\ trail[Alice][MaxLoginAttempts + 1].pwOk
    /\ trail[Alice][MaxLoginAttempts + 1].msg = "Account is locked"

\* a login with the correct password on an active account whose lock has
\* run out (lockUntil is set and not later than now)
ElapsedLogin(p) ==
    /\ arg[p].op = "login"
    /\ pc[p] \in {"check", "compare", "apply"}
    /\ snap[p].exists
    /\ snap[p].isActive
    /\ snap[p].lockUntil # Null
    /\ snap[p].lockUntil <= now
    /\ Hash(arg[p].password) = snap[p].password

\* C2: a login with the correct password on an active account whose lock
\* duration has elapsed completes with success and a signed token, and leaves
\* the stored failedLoginAttempts at 0 and lockUntil cleared.
C2_LoginAfterLock ==
    [][\A p \in Procs :
          (ElapsedLogin(p) /\ pc'[p] = "idle") =>
              /\ ret'[p].type = "ok"
              /\ ret'[p].token.sig
              /\ users'[arg[p].username].failedLoginAttempts = 0
              /\ users'[arg[p].username].lockUntil = Null]_vars

\* C2 witness: the reset of such a login is about to reach an account that
\* is still marked with the expired lock
C2_Witness ==
    /\ ElapsedLogin("p1")
    /\ pc["p1"] = "apply"
    /\ users[Alice].failedLoginAttempts >= MaxLoginAttempts
    /\ users[Alice].lockUntil # Null

\* C3 as stated: through the pipeline with the default configuration, five
\* login requests of one client on an existing account with a wrong password
\* each answer 401 'Invalid credentials', and the sixth request answers 401
\* with the lock message.
C3_SixthIsLockMessage ==
    users[Alice].isActive =>
        LET N == MaxLoginAttempts
            wrong(k) == \A j \in 1..k : ~httpLog[j].pwOk
        IN /\ \A k \in 1..Len(httpLog) :
                 (k <= N /\ wrong(k)) =>
                     (httpLog[k].status = 401 /\ httpLog[k].msg = "Invalid credentials")
           /\ (Len(httpLog) = N + 1 /\ wrong(N))
              => (httpLog[N + 1].status = 401 /\ httpLog[N + 1].msg = "Account is locked")

\* C3 amended: the five requests each answer 401 'Invalid credentials'; the
\* sixth request, whatever its password, answers 429 with the auth limiter's
\* message when it arrives within the auth rate-limit window opened by the
\* first request, and answers 401 with the lock message when it arrives after
\* that window has closed and before the lock set by the fifth has run out.
C3_SixthIsRateLimited ==
    users[Alice].isActive =>
        LET N == MaxLoginAttempts
            wrong(k) == \A j \in 1..k : ~httpLog[j].pwOk
        IN /\ \A k \in 1..Len(httpLog) :
                 (k <= N /\ wrong(k)) =>
                     (httpLog[k].status = 401 /\ httpLog[k].msg = "Invalid credentials")
           /\ (Len(httpLog) = N + 1 /\ wrong(N))
              => IF httpLog[N + 1].tArr <= httpLog[1].tArr + AuthWindowMs
                 THEN /\ httpLog[N + 1].status = 429
                      /\ httpLog[N + 1].msg
                            = "Too many login attempts, please try again later"
                 ELSE (httpLog[N + 1].tChk < httpLog[N].tUpd + LockoutDuration)
                      => /\ httpLog[N + 1].status = 401
                         /\ httpLog[N + 1].msg = "Account is locked"

\* C3 witness: five wrong passwords answered 401, then the correct password
\* answered 429
C3_Witness ==
    /\ Len(httpLog) = MaxLoginAttempts + 1
    /\ \A j \in 1..MaxLoginAttempts : ~httpLog[j].pwOk /\ httpLog[j].status = 401
    /\ httpLog[MaxLoginAttempts + 1].pwOk
    /\ httpLog[MaxLoginAttempts + 1].status = 429

\* C4 as stated: every login that finds a password mismatch changes the
\* stored failedLoginAttempts to its previous value plus 1.
C4_AlwaysPlusOne ==
    [][\A p \in Procs :
          Mismatch(p) =>
              users'[arg[p].username].failedLoginAttempts
                  = users[arg[p].username].failedLoginAttempts + 1]_vars

\* C4 amended: a login that finds a password mismatch changes the stored
\* failedLoginAttempts to its previous value plus 1, unless the account's
\* lockUntil is set and earlier than the instant of the increment: then the
\* counter is set to 1 and lockUntil is cleared.
C4_PlusOneOrRestart ==
    [][\A p \in Procs :
          Mismatch(p) =>
              LET old == users[arg[p].username]
                  new == users'[arg[p].username]
              IN IF old.lockUntil # Null /\ old.lockUntil < upd[p].t
                 THEN new.failedLoginAttempts = 1 /\ new.lockUntil = Null
                 ELSE new.failedLoginAttempts = old.failedLoginAttempts + 1]_vars

\* C4 witness: a mismatch on an account whose lock has expired
C4_Witness ==
    /\ pc["p1"] = "apply"
    /\ upd["p1"].kind # "reset"
    /\ users[Alice].lockUntil # Null
    /\ users[Alice].lockUntil < upd["p1"].t
    /\ users[Alice].failedLoginAttempts >= MaxLoginAttempts

C6_LockedLoginNoEffect ==
    [][/\ \A p \in Procs :
             (/\ arg[p].op = "login"
              /\ pc[p] = "check"
              /\ pc'[p] # "check"
              /\ snap[p].exists
              /\ snap[p].lockUntil # Null
              /\ snap[p].lockUntil > now)
             => /\ pc'[p] = "idle"
                /\ ret'[p].type = "AuthenticationError"
                /\ ret'[p].msg = "Account is locked"
                /\ users' = users
       /\ \A n \in Names :
             (users[n].exists /\ users[n].lockUntil # Null /\ users[n].lockUntil > now)
             => /\ users'[n].lockUntil = users[n].lockUntil
                /\ users'[n].failedLoginAttempts = users[n].failedLoginAttempts]_vars

\* C6 witness: a login has just been refused with the lock message and the
\* account is still locked until the same instant
C6_Witness ==
    /\ ret["p1"].msg = "Account is locked"
    /\ ret["p1"].mins > 0
    /\ users[Alice].lockUntil = now + ret["p1"].mins
    /\ users[Alice].failedLoginAttempts = MaxLoginAttempts

\* C7: with logins on one account in flight together, once an attempt has
\* set lockUntil no other attempt changes lockUntil while that lock is in
\* force.
C7_OneLockPerCrossing ==
    [][\A n \in Names :
          (users[n].exists /\ users[n].lockUntil # Null /\ users[n].lockUntil > now)
          => users'[n].lockUntil = users[n].lockUntil]_vars


\* C8: of the calls a limiter gets for one key within windowMs of the first
\* of them, the first maxRequests are passed on (next() without an error) and
\* the next one is rejected with a RateLimitError of status 429.
C8_FirstRPassThenReject ==
    out.called =>
        LET h == hits[out.key]
            R == custom.maxRequests
        IN /\ h.n <= R => (out.allowed /\ out.error = NoRet)
           /\ h.n = R + 1 => /\ ~out.allowed
                             /\ out.error.type = "RateLimitError"
                             /\ out.error.status = 429

\* C8 witness: the call after the last allowed one, made at the last instant
\* of the window, is rejected
C8_Witness ==
    /\ out.called
    /\ hits[out.key].n = custom.maxRequests + 1
    /\ now = hits[out.key].t0 + custom.windowMs
    /\ ~out.allowed

\* C9 as stated: a call for a key made at an instant not earlier than the
\* resetTime of the key's record, that instant included, is allowed and
\* leaves the record with count 1 and resetTime = now + windowMs.
C9_FreshWindowFromResetTime ==
    [][\A k \in DOMAIN store :
          (out' # out /\ out'.key = k /\ now >= store[k].resetTime)
          => /\ out'.allowed
             /\ store'[k] = [count |-> 1, resetTime |-> now + custom.windowMs]]_vars

\* C9 amended: a call for a key made later than the resetTime of the key's
\* record is allowed and leaves the record with count 1 and resetTime = now +
\* windowMs; a call made at the instant resetTime itself still belongs to the
\* old window: count goes up by one and resetTime stays.
C9_FreshWindowAfterResetTime ==
    [][\A k \in DOMAIN store :
          (out' # out /\ out'.key = k)
          => /\ now > store[k].resetTime
                => /\ out'.allowed
                   /\ store'[k] = [count |-> 1, resetTime |-> now + custom.windowMs]
             /\ now = store[k].resetTime
                => store'[k] = [count |-> store[k].count + 1,
                                resetTime |-> store[k].resetTime]]_vars

\* C9 witness: the first call of a key's second or later window
C9_Witness ==
    /\ out.called
    /\ hits[out.key].gen >= 2
    /\ hits[out.key].t0 = now
    /\ out.allowed
    /\ store[out.key] = [count |-> 1, resetTime |-> now + custom.windowMs]

\* C10: every call of the limiter for a key leaves the key's count at one
\* more than the count of its live record (0 when there is none or its window
\* has closed), rejected calls included, and the call is rejected exactly when
\* that new count exceeds maxRequests.
C10_EveryCallCounts ==
    [][out' # out =>
          LET k == out'.key
              live == IF k \in DOMAIN store /\ ~(now > store[k].resetTime)
                      THEN store[k].count ELSE 0
          IN /\ k \in DOMAIN store'
             /\ store'[k].count = live + 1
             /\ out'.count = live + 1
             /\ out'.allowed = ~(live + 1 > custom.maxRequests)
             /\ (out'.error.type = "RateLimitError") = (live + 1 > custom.maxRequests)]_vars

\* C10 witness: a call made after the rejected one has been counted and
\* rejected too
C10_Witness ==
    /\ out.called
    /\ ~out.allowed
    /\ out.count = custom.maxRequests + 2
    /\ store[out.key].count = out.count


\* C11  While a record's window is open (now <= windowResetAt) no step lowers
\* its count or changes its windowResetAt, whatever window length the
\* limiter of a later call has: the record holds the number of calls made
\* since the call that opened the window, and that call's instant plus that
\* call's window length.  Once the window has closed, the first call that
\* increments the record leaves count 1 (0 before the increment) and
\* windowResetAt = the instant of that call + its window length.
C11_WindowFixedCountMonotone ==
    [][\A k \in DOMAIN store :
          /\ k \in DOMAIN hits
          /\ store[k].count = hits[k].n
          /\ store[k].resetTime = hits[k].t0 + hits[k].w
          /\ IF now <= store[k].resetTime
             THEN /\ k \in DOMAIN store'
                  /\ store'[k].count >= store[k].count
                  /\ store'[k].resetTime = store[k].resetTime
             ELSE k \in DOMAIN store' /\ store'[k] # store[k]
                    => /\ store'[k].count = 1
                       /\ store'[k].resetTime = now + custom'.windowMs]_vars

\* a second window of a key, opened by a limiter of one window length and
\* counting a further call made by a limiter of another window length
C11_Witness ==
    \E k \in DOMAIN store :
        /\ k \in DOMAIN hits
        /\ hits[k].gen >= 2
        /\ store[k].count >= 2
        /\ out.called /\ out.key = k /\ out.count = store[k].count
        /\ custom.windowMs # hits[k].w
        /\ store[k].resetTime = hits[k].t0 + hits[k].w

\* the burst of the key has stayed within one window
BurstInWindow(k) ==
    /\ k \in DOMAIN hits
    /\ IF hits[k].reset = Null
       THEN now <= hits[k].t0 + custom.windowMs
       ELSE now <= hits[k].reset

\* C12  Requests that hit one key while others for that key are in flight,
\* all within one window, and that the runtime handles in any order: the
\* key's count is the count before the burst plus the number of requests
\* handled so far, so when none is in flight any more it is exactly N
\* more than before for the N requests of the burst.
C12_NoLostIncrement ==
    \A k \in DOMAIN hits :
        BurstInWindow(k) /\ hits[k].h > 0
          => /\ k \in DOMAIN store
             /\ store[k].count = hits[k].base + hits[k].h
             /\ AllIdle => store[k].count = hits[k].base + hits[k].n

\* a burst of at least three requests on a record that already counted
\* some, two of them in flight together, all handled within the window
C12_Witness ==
    \E k \in DOMAIN hits :
        /\ BurstInWindow(k)
        /\ AllIdle
        /\ hits[k].base >= 1
        /\ hits[k].n >= 3
        /\ k \in DOMAIN store
        /\ store[k].count = hits[k].base + hits[k].n

\* a request has gone through a limiter in this step
LimiterRan == custom' # custom \/ out' # out

\* C13  When the key generator of a limiter throws, the limiter passes the
\* error thrown to next(error), leaves every rate-limit record as it was
\* (none created, none incremented) and does not call next() without an
\* error.
C13_KeyErrorPassedOn ==
    [][LimiterRan /\ KeyThrows(custom')
         => /\ store' = store
            /\ out'.called
            /\ ~out'.allowed
            /\ out'.error = PlainError("Key generation error")]_vars

\* a limiter whose key generator throws has handled a request while the
\* address has a live record counted by another limiter
C13_Witness ==
    /\ KeyThrows(custom)
    /\ out.called
    /\ out.error = PlainError("Key generation error")
    /\ <<"ip1">> \in DOMAIN store
    /\ store[<<"ip1">>].count >= 1
    /\ now <= store[<<"ip1">>].resetTime

\* the record of the auth limiter's key holds exactly the requests the
\* observer has counted under sig, while the window of their first is open
CountedApart(sig, username) ==
    LET key == KeyOf(authRateLimiter, [ip |-> sig[1], username |-> username]) IN
      now - hits[sig].t0 <= AuthWindowMs
        => /\ key \in DOMAIN store
           /\ store[key].count = hits[sig].n
           /\ store[key].resetTime = hits[sig].t0 + AuthWindowMs

\* C14  The auth limiter's key is auth:<address>:<username>, with the
\* placeholder 'unknown' for a missing or empty username.  The record of an
\* address and a username holds exactly the requests made from that address
\* with that username: requests of the address with another username, and
\* requests of another address with the same username, are counted in other
\* records.  The requests of an address without a username are counted in
\* the placeholder's record of that address (which is also the record of
\* the username spelt 'unknown').
C14_RecordPerUsernameOrPlaceholder ==
    \A sig \in DOMAIN hits :
        IF sig[2] = Pooled THEN CountedApart(sig, NoString)
        ELSE sig[2] \notin {NoString, Unknown} => CountedApart(sig, sig[2])

\* one address has made requests as alice, without a username and as
\* 'unknown', another address as alice, all in their windows: three records
C14_Witness ==
    /\ \A req \in AuthRequests :
          /\ <<req.ip, req.username>> \in DOMAIN hits
          /\ now - hits[<<req.ip, req.username>>].t0 <= AuthWindowMs
    /\ hits[<<"ip1", Alice>>].n = 2
    /\ hits[<<"ip2", Alice>>].n = 1
    /\ hits[<<"ip1", Pooled>>].n = 2
    /\ Cardinality(DOMAIN store) = 3

\* the headers of the request handled in this step: the limit of its
\* limiter, what is left of it after the count its record now holds, never
\* below 0, and the end of the record's window in whole seconds, rounded up
HeadersRight ==
    /\ out'.headers
    /\ out'.key \in DOMAIN store'
    /\ out'.limit = custom'.maxRequests
    /\ out'.remaining = Max(0, custom'.maxRequests - store'[out'.key].count)
    /\ out'.remaining >= 0
    /\ out'.reset * TicksPerSecond >= store'[out'.key].resetTime
    /\ (out'.reset - 1) * TicksPerSecond < store'[out'.key].resetTime

\* this step's request is allowed and follows, in the same window, a
\* request of the same limiter for the same key: Remaining is one lower
OneLower ==
    /\ out.headers
    /\ custom' = custom
    /\ out'.key = out.key
    /\ out'.resetTime = out.resetTime
    /\ out'.count = out.count + 1
    /\ out'.allowed
    => out'.remaining = out.remaining - 1

\* C15 as stated: every request that goes through a limiter gets the three
\* headers, with Limit = maxRequests, Remaining = max(0, maxRequests - count)
\* and Reset = the end of the window in epoch seconds, whether it is allowed
\* or rejected; Remaining is never negative and one lower after each allowed
\* request of a window.
C15_HeadersOnEveryRequest ==
    [][LimiterRan => HeadersRight /\ OneLower]_vars

\* C15  Every request for which the limiter's key generator returns a key
\* gets the three headers, with Limit = maxRequests, Remaining =
\* max(0, maxRequests - count) and Reset = the end of the window in epoch
\* seconds, whether it is allowed or rejected; Remaining is never negative
\* and one lower after each allowed request of a window.  A request whose
\* key generator throws gets none of the three headers.
C15_HeadersUnlessKeyError ==
    [][LimiterRan =>
         IF KeyThrows(custom')
         THEN ~out'.headers
         ELSE HeadersRight /\ OneLower]_vars

\* a rejected request two over the limit has got its headers (Remaining 0),
\* with a window that does not end on a whole second
C15_Witness ==
    /\ out.called
    /\ out.headers
    /\ ~out.allowed
    /\ out.count = out.limit + 2
    /\ out.remaining = 0
    /\ out.reset * TicksPerSecond > out.resetTime

\* the login of process p is answered at the lookup: no identity has the
\* username
UnknownUser(p) == pc[p] = "check" /\ pc'[p] = "idle" /\ ~snap[p].exists

\* C16  A login whose username matches no identity and a login on an
\* existing, active, unlocked identity with a wrong password get the same
\* answer: an AuthenticationError (401) with the message 'Invalid
\* credentials' and nothing else in it.
C16_SameAnswerUnknownOrWrong ==
    [][\A p \in Procs :
          UnknownUser(p) \/ Mismatch(p)
            => ret'[p] = AuthenticationError("Invalid credentials")]_vars

\* a login has just been answered 'Invalid credentials' and alice, active
\* and unlocked, has a failed attempt counted
C16_Witness ==
    /\ ret["p1"] = AuthenticationError("Invalid credentials")
    /\ pc["p1"] = "idle"
    /\ users[Alice].isActive
    /\ users[Alice].lockUntil = Null
    /\ users[Alice].failedLoginAttempts = 1

\* C17  When a store operation called by login throws (the lookup, the
\* password comparison, the failed-attempt increment or the reset), or the
\* signing of the token does, login fails with
\* AuthenticationError('Authentication failed'): the caller gets neither
\* the kind nor the message of the error thrown.
C17_StoreFailureIsGeneric ==
    [][\A p \in Procs :
          arg[p].op = "login" /\ thrown'[p] # NoThrow /\ pc'[p] = "idle"
            => /\ ret'[p] = AuthenticationError("Authentication failed")
               /\ ret'[p].type # thrown'[p].name
               /\ ret'[p].msg # thrown'[p].message]_vars

\* login has failed with the generic error after the store threw an error
\* that mongoose names ValidationError
C17_Witness ==
    /\ thrown["p1"] = SchemaError
    /\ ret["p1"] = AuthenticationError("Authentication failed")
    /\ pc["p1"] = "idle"
    /\ users[Alice].failedLoginAttempts = 1

\* C18  Every failure of login, register or verifyUser, whatever the store
\* or the token library threw, reaches the caller as a ValidationError or an
\* AuthenticationError: no answer is of another error type.
C18_OnlyTwoErrorKinds ==
    \A p \in Procs :
        ret[p].type \in {"none", "ok", "ValidationError", "AuthenticationError"}

\* the call answered ValidationError without having called the store
RejectedAtOnce(p) ==
    /\ pc'[p] = "idle"
    /\ ret'[p].type = "ValidationError"
    /\ users' = users

\* the rules of validators.js on the fields of login and register
UsernameRuleBroken(s) == Len(s) < 3 \/ Len(s) > 50 \/ ~UsernameCharsOnly(s)
PasswordRuleBroken(s) ==
    \/ Len(s) < 8
    \/ Len(s) > 128
    \/ \E C \in {UpperChars, LowerChars, DigitChars, SpecialChars} : ~Has(s, C)
EmailRuleBroken(s) == s # <<>> /\ (~EmailRegex(s) \/ Len(s) > 255)

\* what sanitizeString makes of each string given to a call
Sanitized ==
    [s \in FaultLoginNames \cup FaultRegisterNames \cup FaultLoginPasswords
           \cup RegisterPasswords \cup FaultRegisterEmails |-> sanitizeString(s)]

\* a call of login or register starts in this step
CallStarts(p) ==
    /\ pc[p] = "idle"
    /\ now' = now
    /\ given'[p].op \in {"login", "register"}

\* C19 as stated  A login or register call whose submitted username is
\* shorter than 3 or longer than 50 characters fails with ValidationError
\* and calls the store not at all.
C19_SubmittedLengthRejected ==
    [][\A p \in Procs :
          /\ CallStarts(p)
          /\ Len(given'[p].username) < 3 \/ Len(given'[p].username) > 50
          => RejectedAtOnce(p)]_vars

\* C19  A login or register call whose input, once null bytes and the
\* surrounding whitespace are removed, violates a validation rule (in
\* particular a username then shorter than 3 or longer than 50 characters)
\* fails with ValidationError and calls the store not at all.
C19_InvalidInputNoStoreCall ==
    [][\A p \in Procs :
          /\ CallStarts(p)
          /\ \/ UsernameRuleBroken(Sanitized[given'[p].username])
             \/ /\ given'[p].op = "login"
                /\ Sanitized[given'[p].password] = <<>>
             \/ /\ given'[p].op = "register"
                /\ \/ PasswordRuleBroken(Sanitized[given'[p].password])
                   \/ EmailRuleBroken(Sanitized[given'[p].email])
          => RejectedAtOnce(p)]_vars

\* a username of more than 50 characters has been refused, after an earlier
\* call had counted a failure in the store
C19_Witness ==
    /\ pc["p1"] = "idle"
    /\ Len(given["p1"].username) > 50
    /\ ret["p1"] = ValidationError("Validation failed",
                                   <<"Username must not exceed 50 characters">>)
    /\ users[Alice].failedLoginAttempts = 1

\* a call ends in this step with a failure as its answer
FailsNow(p) ==
    /\ pc[p] # "idle" \/ now' = now
    /\ pc'[p] = "idle"
    /\ ret'[p].type \notin {"none", "ok"}

\* what a failed password check may write on the account of the login
CountedFailure(p, n) ==
    /\ arg[p].op = "login"
    /\ arg[p].username = n
    /\ ret'[p] = AuthenticationError("Invalid credentials")
    /\ users'[n].failedLoginAttempts # users[n].failedLoginAttempts
    /\ [users'[n] EXCEPT !.failedLoginAttempts = 0, !.lockUntil = Null]
         = [users[n] EXCEPT !.failedLoginAttempts = 0, !.lockUntil = Null]

\* C20  Whenever login, register or verifyUser returns a failure, the store
\* holds exactly what it held before the call, except that a login failing
\* at the password check has counted the failure (and possibly set
\* lockUntil): no failing call leaves a created identity, a reset counter or
\* a new lastLogin behind.
C20_FailureLeavesStoreAlone ==
    [][\A p \in Procs :
          FailsNow(p) =>
            \A n \in Names : users'[n] = users[n] \/ CountedFailure(p, n)]_vars

\* the message of validatePassword for each character class
ClassMessage ==
    [upper |-> "Password must contain at least one uppercase letter",
     lower |-> "Password must contain at least one lowercase letter",
     digit |-> "Password must contain at least one number",
     special |-> "Password must contain at least one special character"]
ClassChars ==
    [upper |-> UpperChars, lower |-> LowerChars, digit |-> DigitChars,
     special |-> SpecialChars]
MissingClasses(password) == {c \in DOMAIN ClassChars : ~Has(password, ClassChars[c])}
Times(errors, m) == Cardinality({i \in 1..Len(errors) : errors[i] = m})

UsernameRulesBroken(u) ==
    IF u = <<>> THEN {"Username is required"}
    ELSE {m \in {"Username must be at least 3 characters long"} : Len(u) < 3}
      \cup {m \in {"Username must not exceed 50 characters"} : Len(u) > 50}
      \cup {m \in {"Username can only contain letters, numbers, hyphens, and underscores"} :
               ~UsernameCharsOnly(u)}
PasswordRulesBroken(pw) ==
    IF pw = <<>> THEN {"Password is required"}
    ELSE {m \in {"Password must be at least 8 characters long"} : Len(pw) < 8}
      \cup {m \in {"Password must not exceed 128 characters"} : Len(pw) > 128}
      \cup {ClassMessage[c] : c \in MissingClasses(pw)}
Listed(errors) == {errors[i] : i \in 1..Len(errors)}

\* C22  A ValidationError of login or registration validation lists every
\* rule that the input violates, never the first only: an input violating
\* several rules of one field, or rules of several fields, gets one message
\* for each rule violated.
C22_EveryViolatedRuleListed ==
    LET u == sanitizeString(given["p1"].username)
        pw == sanitizeString(given["p1"].password)
        fn == arg["p1"].op
    IN ret["p1"].type = "ValidationError"
         => /\ UsernameRulesBroken(u) \subseteq Listed(ret["p1"].errors)
            /\ fn = "validateRegistrationData"
                 => PasswordRulesBroken(pw) \subseteq Listed(ret["p1"].errors)
            /\ fn = "validateLoginCredentials" /\ pw = <<>>
                 => "Password is required" \in Listed(ret["p1"].errors)

\* the fields that the message of a ValidationError of register names
FieldsNamed(r) ==
    {f \in {"username"} : r.msg \in {"Username already exists", "username already exists"}}
      \cup {f \in {"email"} : r.msg \in {"Email already exists", "email already exists"}}

\* register goes on in this step with a username that an identity of the
\* store has
UsernameTaken(p) ==
    /\ arg[p].op = "register"
    /\ pc[p] \in {"rfind", "rsave"}
    /\ arg[p].username \in Names
    /\ users[arg[p].username].exists

\* C23  register with the username of an existing identity fails with a
\* ValidationError (400) whose message names the username as the duplicate
\* field, and creates no identity.
C23_DuplicateUsernameNamed ==
    [][\A p \in Procs :
          UsernameTaken(p) /\ pc'[p] # pc[p]
            => /\ pc'[p] = "idle"
               /\ ret'[p].type = "ValidationError"
               /\ ret'[p].status = 400
               /\ FieldsNamed(ret'[p]) = {"username"}
               /\ users' = users]_vars

\* the email that register goes on with is that of an identity of the store
EmailTaken(p) ==
    /\ arg[p].email # <<>>
    /\ \E n \in Names : users[n].exists /\ users[n].email = arg[p].email

\* C24  register whose username is that of an existing identity and whose
\* email is that of an existing identity (the same one or another) fails
\* with a ValidationError that names both the username and the email.
C24_BothCollisionsNamed ==
    [][\A p \in Procs :
          UsernameTaken(p) /\ EmailTaken(p) /\ pc'[p] # pc[p]
            => /\ pc'[p] = "idle"
               /\ ret'[p].type = "ValidationError"
               /\ FieldsNamed(ret'[p]) = {"username", "email"}]_vars

\* register is about to save and an identity created since its uniqueness
\* check has the same username or the same email
LostRace(p) ==
    /\ pc[p] = "rsave"
    /\ pc'[p] = "idle"
    /\ UsernameTaken(p) \/ EmailTaken(p)

\* C25  When two register calls for the same username or the same email
\* have both passed the uniqueness check before either creates its record,
\* one identity is created and the other call creates none and fails with a
\* ValidationError naming the colliding field.
C25_RaceLoserNamedField ==
    [][\A p \in Procs :
          LostRace(p)
            => /\ users' = users
               /\ ret'[p].type = "ValidationError"
               /\ FieldsNamed(ret'[p]) # {}
               /\ "username" \in FieldsNamed(ret'[p]) => UsernameTaken(p)
               /\ "email" \in FieldsNamed(ret'[p]) => EmailTaken(p)]_vars

\* C26  After any sequence or interleaving of register calls no two stored
\* identities have the same username, and no two stored identities that
\* have an email have the same email.
C26_UsernameAndEmailUnique ==
    \A n, m \in Names :
        users[n].exists /\ users[m].exists /\ n # m
          => /\ users[n].id # users[m].id
             /\ users[n].email # <<>> => users[n].email # users[m].email

\* verifyUser is called in this step, with the token given'[p].token
VerifyStarts(p) ==
    /\ pc[p] = "idle"
    /\ now' = now
    /\ users' = users
    /\ given'[p].op = "verify"

\* the token was issued by generateToken and not altered since
Genuine(token) == token.jwt /\ token.sig /\ token.iss = JwtIssuer

\* C27  A token issued at instant t expires at t plus the configured
\* lifetime, in the unit (seconds) in which the verifier reads the clock:
\* verifyToken accepts it at any instant before and fails with
\* AuthenticationError at any instant after.
C27_ExpiresAfterLifetime ==
    [][\A p \in Procs :
          LET token == given'[p].token
              issuedAt == token.iat \div TicksPerSecond
              clock == now \div TicksPerSecond
          IN VerifyStarts(p) /\ Genuine(token)
               => /\ clock < issuedAt + JwtExpiresIn => pc'[p] = "vfind"
                  /\ clock > issuedAt + JwtExpiresIn
                       => /\ pc'[p] = "idle"
                          /\ ret'[p].type = "AuthenticationError"]_vars

\* GET /auth/verify is requested with a token in this step
VerifyRequested(p) ==
    /\ pc[p] = "idle"
    /\ now' = now
    /\ given'[p].op = "verify"
    /\ given'[p].token # NoToken

\* the faults jwt.verify tells apart
TokenFaults == {"jwt malformed", "invalid signature", "jwt expired", "jwt issuer invalid"}

\* C28  Whatever makes jwt.verify reject a token (expired, bad signature,
\* wrong issuer, malformed), GET /auth/verify answers 401 with the
\* AuthenticationError 'Invalid or expired token', the same answer as for
\* every rejection before it, whatever its fault was.
C28_RejectionsIndistinguishable ==
    [][\A p \in Procs :
          (/\ VerifyRequested(p)
           /\ out'.allowed
           /\ jwtVerify(given'[p].token, now) # "")
            => /\ pc'[p] = "idle"
               /\ ret'[p].type = "AuthenticationError"
               /\ ret'[p].status = 401
               /\ \A f \in TokenFaults :
                     (/\ <<"rejected", f>> \in DOMAIN hits
                      /\ hits[<<"rejected", f>>].type = "AuthenticationError")
                       => ret'[p] = hits[<<"rejected", f>>]]_vars

\* C28 witness: an expired, a malformed, a forged and a wrong-issuer token
\* have each been answered, all four with the same 401
C28_Witness ==
    /\ \A f \in TokenFaults :
          /\ <<"rejected", f>> \in DOMAIN hits
          /\ hits[<<"rejected", f>>].status = 401
    /\ \A f, g \in TokenFaults : hits[<<"rejected", f>>] = hits[<<"rejected", g>>]

\* the lookup of verifyUser answers in this step
VerifyAnswers(p) == pc[p] = "vfind" /\ pc'[p] = "idle"

\* C29  Verifying a token changes nothing (identities, limiter store,
\* settings, token issued last), yields the claims the token carries, and,
\* when the same token was verified before and the store has not changed
\* since, verifyUser returns the answer (the user view) it returned then.
C29_VerifyIdempotent ==
    [][\A p \in Procs :
          /\ VerifyStarts(p)
               => /\ <<users, store, custom, issued>>' = <<users, store, custom, issued>>
                  /\ pc'[p] = "vfind" => arg'[p].token = given'[p].token
          /\ VerifyAnswers(p)
               => /\ <<users, store, custom, issued>>' = <<users, store, custom, issued>>
                  /\ (/\ <<"verified">> \in DOMAIN hits
                      /\ hits[<<"verified">>].token = arg[p].token)
                       => ret'[p] = hits[<<"verified">>].answer]_vars

\* C29 witness: a genuine token was verified a second time with the store
\* as it was the first time, and verifyUser returned the user view
C29_Witness ==
    /\ <<"verified">> \in DOMAIN hits
    /\ hits[<<"verified">>].again
    /\ Genuine(hits[<<"verified">>].token)
    /\ hits[<<"verified">>].answer.type = "ok"
    /\ hits[<<"verified">>].answer.user.username = Alice

\* the identity the token names exists and is active
SubjectUsable(token) ==
    \E n \in Names : users[n].exists /\ users[n].id = token.sub /\ users[n].isActive

\* C30  verifyUser fails with AuthenticationError (401) whenever the token
\* passed verifyToken but the identity it names is absent from the store or
\* inactive at the moment of the lookup.
C30_StaleSubjectRejected ==
    [][\A p \in Procs :
          (VerifyAnswers(p) /\ ~SubjectUsable(arg[p].token))
            => /\ ret'[p].type = "AuthenticationError"
               /\ ret'[p].status = 401]_vars

\* C30 witness: the token login issued to ali, presented after ali was
\* deactivated, is answered 'User not found or inactive'
C30_Witness ==
    /\ pc["p1"] = "idle"
    /\ given["p1"].op = "verify"
    /\ Genuine(given["p1"].token)
    /\ given["p1"].token.sub = users[Alice].id
    /\ users[Alice].exists /\ ~users[Alice].isActive
    /\ ret["p1"].type = "AuthenticationError"
    /\ ret["p1"].msg = "User not found or inactive"

\* POST /auth/logout is requested in this step
LogoutRequested(p) ==
    /\ pc[p] = "idle"
    /\ now' = now
    /\ given'[p].op = "logout"

\* verifyUser would accept the token in this state
Accepted(token) == verifyToken(token, now) /\ SubjectUsable(token)

\* C31 (as stated)  POST /auth/logout always answers 200, with or without
\* an Authorization header and whether or not the token is valid, and
\* changes no identity and no token.
C31_LogoutAlways200 ==
    [][\A p \in Procs :
          LogoutRequested(p)
            => /\ ret'[p].status = 200
               /\ users' = users
               /\ issued' = issued]_vars

\* C31 (amended)  A POST /auth/logout that the api limiter lets through
\* answers 200 whatever its Authorization header, one over the limit answers
\* 429; either way it changes no identity and no token, only the rate-limit
\* record of the address, so every token verifyUser would accept before the
\* request it would accept after it, and a token verifyUser accepted before
\* the logout it accepts when it is verified next.
C31_LogoutHarmless ==
    [][\A p \in Procs :
          /\ LogoutRequested(p)
               => /\ pc'[p] = "idle"
                  /\ ret'[p].status = IF out'.allowed THEN 200 ELSE 429
                  /\ out'.allowed <=> out'.count <= ApiMaxRequests
                  /\ <<users, issued, custom>>' = <<users, issued, custom>>
                  /\ \A k \in DOMAIN store : k # out'.key => store'[k] = store[k]
                  /\ \A t \in TokenInputs : Accepted(t)' <=> Accepted(t)
          /\ (VerifyAnswers(p) /\ LoggedOut(arg[p].token))
               => ret'[p].type = "ok"]_vars

\* C31 witness: verifyUser accepted the token login issued, the token was
\* sent with a logout that answered 200, and verifyUser accepted it again
C31_Witness ==
    /\ <<"verified">> \in DOMAIN hits
    /\ hits[<<"verified">>].again
    /\ hits[<<"verified">>].answer.type = "ok"
    /\ Genuine(hits[<<"verified">>].token)
    /\ hits[<<"logout">>].answer.status = 200

\* login makes its checks on the loaded document in this step
Checks(p) == pc[p] = "check" /\ pc'[p] # "check"

\* C32  login checks existence, lock, active, password in this order and
\* stops at the first check that fails: an unlocked inactive identity gets
\* 'Account is inactive' whatever the password, a locked inactive one the
\* lock error; in both cases the password is not compared and the stored
\* identity is unchanged.
C32_ChecksInOrder ==
    [][\A p \in Procs :
          /\ Checks(p) =>
               LET user == snap[p] IN
                 /\ ~user.exists
                      => pc'[p] = "idle" /\ ret'[p].msg = "Invalid credentials"
                 /\ (user.exists /\ isLocked(user, now))
                      => pc'[p] = "idle" /\ ret'[p].msg = "Account is locked"
                 /\ (user.exists /\ ~isLocked(user, now) /\ ~user.isActive)
                      => pc'[p] = "idle" /\ ret'[p].msg = "Account is inactive"
                 /\ pc'[p] = "idle"
                      => ret'[p].type = "AuthenticationError" /\ ret'[p].status = 401
                 /\ pc'[p] = "compare"
                      <=> user.exists /\ ~isLocked(user, now) /\ user.isActive
          /\ pc[p] \in {"find", "check"} => users' = users]_vars

\* C32 witness: inactive alice was answered 'Account is inactive' with the
\* right and with the wrong password, and the lock error while locked
C32_Witness ==
    /\ \A pwOk \in BOOLEAN :
          /\ <<"inactive", FALSE, pwOk>> \in DOMAIN hits
          /\ hits[<<"inactive", FALSE, pwOk>>].msg = "Account is inactive"
    /\ <<"inactive", TRUE, TRUE>> \in DOMAIN hits
    /\ hits[<<"inactive", TRUE, TRUE>>].msg = "Account is locked"
    /\ users[Alice].failedLoginAttempts = MaxLoginAttempts

\* POST /auth/login or POST /auth/register is requested in this step
AuthRequested(p) ==
    /\ pc[p] = "idle"
    /\ now' = now
    /\ given'[p].op \in {"login", "register"}

\* C33  A login or register request that a rate limiter rejects is answered
\* 429 without the service being called: the call makes no lookup and no
\* password comparison, and every stored identity, failedLoginAttempts and
\* lockUntil included, is as before.
C33_LimitedNeverReachesService ==
    [][\A p \in Procs :
          AuthRequested(p)
            => /\ ~out'.allowed <=> ret'[p].status = 429
               /\ ~out'.allowed
                    => /\ pc'[p] = "idle"
                       /\ ret'[p].type = "RateLimitError"
                       /\ users' = users
                       /\ issued' = issued
               /\ pc'[p] \in {"find", "rfind"} => out'.allowed]_vars

\* C33 witness: a login and a register request on locked alice were both
\* answered 429
C33_Witness ==
    /\ <<"limited", "login">> \in DOMAIN hits
    /\ <<"limited", "register">> \in DOMAIN hits
    /\ users[Alice].failedLoginAttempts = MaxLoginAttempts
    /\ users[Alice].lockUntil # Null

\* C34  Whenever cleanup has run, every limiter call has the outcome
\* (allowed or rejected, count, remaining, reset instant, headers, error) it
\* has on a store that got the same calls at the same instants and was
\* never cleaned up.
C34_CleanupUnobservable ==
    [][hits' # hits
         => out' = Limiter(custom, [ip |-> out'.key[1], username |-> NoString],
                           hits, now).out]_vars

\* C34 witness: cleanup purged the record of an address, a request of that
\* address came later, and the store that is never cleaned up still holds
\* a record that the cleaned one has lost
C34_Witness ==
    /\ httpLog # <<>>
    /\ httpLog[1].called /\ httpLog[1].allowed /\ httpLog[1].count = 1
    /\ DOMAIN hits # DOMAIN store

\* C35  On every password mismatch the attempt count of the security event
\* equals the failedLoginAttempts the store holds for the account once the
\* increment of this call is applied.
C35_AuditCountIsStored ==
    [][\A p \in Procs :
          Mismatch(p)
            => FailedLoginEvent(arg[p].username, snap[p]).attempts
                 = users'[arg[p].username].failedLoginAttempts]_vars

\* a call of login ends in this step
LoginEnds(p) ==
    /\ pc'[p] = "idle"
    /\ \/ pc[p] # "idle" /\ arg[p].op = "login"
       \/ CallStarts(p) /\ given'[p].op = "login"

\* C36  login returns a token only at the end of a call that found the
\* identity, found it not locked and active, got true from the password
\* comparison and had its failed-attempt reset applied by the store; every
\* other end of login returns an error and no token.
C36_TokenOnlyAfterAllChecks ==
    [][\A p \in Procs :
          LoginEnds(p) =>
            /\ ret'[p].type = "ok" <=> ret'[p].token # NoToken
            /\ ret'[p].token # NoToken
                 => LET user == snap[p]
                        name == arg[p].username
                    IN /\ pc[p] = "apply"
                       /\ user.exists
                       /\ ~isLocked(user, now)
                       /\ user.isActive
                       /\ comparePassword(user, arg[p].password)
                       /\ upd[p].kind = "reset"
                       /\ users'[name].failedLoginAttempts = 0
                       /\ users'[name].lockUntil = Null
                       /\ users'[name].lastLogin = upd[p].t
                       /\ ret'[p].token = generateToken(name, user, now)]_vars

\* C36 witness: login has returned ali's token after the store applied the
\* reset, later than the start of the clock
C36_Witness ==
    /\ pc["p1"] = "idle"
    /\ given["p1"].op = "login"
    /\ ret["p1"].type = "ok"
    /\ Genuine(ret["p1"].token)
    /\ ret["p1"].token.username = Alice
    /\ users[Alice].failedLoginAttempts = 0
    /\ users[Alice].lastLogin = now
    /\ now > 0

\* the failed password comparisons on account n whose update the store has
\* not applied yet
Uncounted(n) ==
    Cardinality({p \in Procs : /\ pc[p] = "apply"
                               /\ arg[p].username = n
                               /\ upd[p].kind # "reset"})

\* C37  With logins on one account in flight together, the account is
\* locked as soon as its stored counter reaches MaxLoginAttempts, and while
\* it has no lock no more than MaxLoginAttempts failed password comparisons
\* have been made on it.
C37_AtMostNGuesses ==
    \A n \in Names :
        users[n].exists =>
            /\ users[n].failedLoginAttempts >= MaxLoginAttempts
                 => users[n].lockUntil # Null
            /\ users[n].lockUntil = Null
                 => users[n].failedLoginAttempts + Uncounted(n) <= MaxLoginAttempts

\* the failed login of process p, applied in this step, is the first one
\* after a lock has expired: login loaded the document with a lock and did
\* not refuse it as locked
FirstFailureAfterLock(p) ==
    /\ Mismatch(p)
    /\ snap[p].lockUntil # Null

\* C38  The first failed login after a lock has expired leaves the stored
\* counter at 1 and lockUntil cleared: the account is not locked again by
\* this failure.
C38_RestartAfterExpiry ==
    [][\A p \in Procs :
          FirstFailureAfterLock(p)
            => /\ users'[arg[p].username].failedLoginAttempts = 1
               /\ users'[arg[p].username].lockUntil = Null]_vars

\* account n acquires a lock in this step
LockAcquired(n) ==
    /\ users'[n].lockUntil # Null
    /\ users'[n].lockUntil # users[n].lockUntil

\* the login of process p on account n succeeds in this step
Succeeds(p, n) ==
    /\ pc[p] = "apply" /\ pc'[p] = "idle"
    /\ upd[p].kind = "reset"
    /\ arg[p].username = n

\* C39  An account acquires a lock only in the step of a failed password
\* check that brings its count of consecutive failures, restarted by every
\* successful login and lock expiry, to MaxLoginAttempts; with fewer
\* consecutive failures it is not locked, and it is not locked right after
\* a successful login.
C39_LockOnlyAtNthFailure ==
    [][\A n \in Names :
          users[n].exists =>
            /\ LockAcquired(n)
                 => /\ \E p \in Procs : Mismatch(p) /\ arg[p].username = n
                    /\ users'[n].failedLoginAttempts = MaxLoginAttempts
            /\ (\E p \in Procs : Succeeds(p, n))
                 => /\ users'[n].failedLoginAttempts = 0
                    /\ users'[n].lockUntil = Null
            /\ users'[n].failedLoginAttempts < MaxLoginAttempts
                 => ~isLocked(users'[n], now')]_vars

\* C40  The login requests of one address whose usernames are the same once
\* sanitised, and so are looked up as the same account, are counted in one
\* record of the auth limiter: the record of the sanitised username holds
\* all of them while their window is open.
C40_SameRecordAfterSanitisation ==
    \A sig \in DOMAIN hits : CountedApart(sig, sig[2])
====
